---------------------------- MODULE Spec2Model ----------------------------
(***************************************************************************)
(* Model of the change-detection and signing scripts of SideloadedIPA:     *)
(*   scripts/check_changes.py  (device-list differ, release checker,       *)
(*                              rebuild planner, main)                     *)
(*   scripts/run_signing.py    (GitHub client, should_rebuild_task, main)  *)
(*                                                                         *)
(* Modelling conventions                                                   *)
(*   - a Python value that the code only tests for truthiness (a missing   *)
(*     key, None, "") is the empty string "";                              *)
(*   - Optional[dict] results are sequences: << >> is None, <<d>> is d;    *)
(*   - strings that the code orders (device ids) are integers, 0 being ""; *)
(*   - SHA-256 is an injective tag on the canonical serialisation.         *)
(***************************************************************************)
EXTENDS Integers, Sequences, FiniteSets, TLC

VARIABLES
    \* ---- calculate_checksum applied to a list and to a permutation of it
    data,            \* the device list L
    permuted,        \* a permutation P of L
    sum_data,        \* calculate_checksum(L)   (<< >> before the call)
    sum_permuted,    \* calculate_checksum(P)
    \* ---- compare_device_lists
    cached_file,     \* work/cache-old/device-list.json
    current_file,    \* work/cache/device-list.json
    cmp_result,      \* << >> before the call, <<(changed, cached, current)>> after
    fn_pc,           \* position of the function-level specifications
    \* ---- the rebuild decision of one task: check_github_release_version
    \*      and should_rebuild_task applied to the same task, cache and answer
    dec_task,        \* the task
    dec_cache,       \* the release cache's "tasks" table
    dec_resp,        \* what the GitHub API answers to the release request
    dec_client,      \* should_rebuild_task's github_client is not None
    dec_force,       \* should_rebuild_task's force_rebuild
    dec_check,       \* << >>, then <<check_github_release_version's result>>
    dec_signer,      \* << >>, then <<should_rebuild_task's result>>
    dec_selected,    \* << >>, then <<the release each of the two selected>>
    \* ---- find_matching_asset and validate_task applied to one input
    fma_release,     \* the release given to find_matching_asset
    fma_glob_pattern,\* the glob pattern given to it
    fma_asset,       \* what it returned (<< >> is None)
    vt_task,         \* the task given to validate_task
    vt_is_valid,     \* what it returned
    \* ---- the files and the environment both scripts read
    config,          \* configs/tasks.toml: [exists, tasks]
    env,             \* environment variables
    cache_file,      \* work/cache/release-versions.json: [state, tasks]
    \* ---- check_changes.main
    cc_pc,           \* "start", "loop" (get_tasks_to_rebuild), "output", "done"
    cc_force_rebuild,
    cc_devices_changed,
    cc_rebuild_all,
    cc_i,            \* index of the task the planner's loop visits next
    cc_rebuild_tasks,\* the set get_tasks_to_rebuild builds / returns
    cc_log,          \* per visited task: the API status and the checker's answer
    cc_output,       \* << >>, or <<what was written to GITHUB_OUTPUT>>
    cc_exit,         \* -1 while running, then the exit code
    \* ---- run_signing.main
    rs_pc,           \* "start", "decide", "pipeline", "finish", "done"
    rs_rebuild_all,
    rs_has_rebuild_tasks,
    rs_rebuild_tasks_set,
    rs_github_client,\* whether a GitHubAPIClient was built
    rs_release_cache,\* release_cache["tasks"], in memory
    rs_i,            \* index of the task the loop visits
    rs_should_rebuild,
    rs_ipa_url,      \* ipa_url of the iteration ("" is None)
    rs_version_info, \* version_info of the iteration (<< >> is None)
    rs_any_fail,
    rs_exit,         \* -1 while running, then the exit code
    \* what happened, kept to state the properties
    rs_loaded,       \* release_cache["tasks"] as load_release_cache returned it
    rs_status,       \* API status the iteration's request got (-1: no request)
    rs_fetched,      \* the release and asset the iteration's request resolved to
    rs_step,         \* how the iteration ended
    rs_failed,       \* names of the tasks whose pipeline failed in this run
    rs_rate_limited, \* a request of this run was answered 403
    rs_seen,         \* task name -> "no_asset" (its release had no matching asset)
                     \*   or "same" (its release is the one the cache records)
    server           \* assets server: task name -> URL the uploaded IPA was built from

dec_vars == <<dec_task, dec_cache, dec_resp, dec_client, dec_force,
              dec_check, dec_signer, dec_selected>>

unit_vars == <<fma_release, fma_glob_pattern, fma_asset, vt_task, vt_is_valid>>

fn_vars == <<data, permuted, sum_data, sum_permuted,
             cached_file, current_file, cmp_result, fn_pc, dec_vars, unit_vars>>

world_vars == <<config, env, cache_file>>

cc_vars == <<cc_pc, cc_force_rebuild, cc_devices_changed, cc_rebuild_all, cc_i,
             cc_rebuild_tasks, cc_log, cc_output, cc_exit>>

rs_vars == <<rs_pc, rs_rebuild_all, rs_has_rebuild_tasks, rs_rebuild_tasks_set,
             rs_github_client, rs_release_cache, rs_i, rs_should_rebuild, rs_ipa_url,
             rs_version_info, rs_any_fail, rs_exit, rs_loaded, rs_status, rs_fetched,
             rs_step, rs_failed, rs_rate_limited, rs_seen, server>>

vars == <<fn_vars, world_vars, cc_vars, rs_vars>>

\* An environment variable that is not set
Unset == "<unset>"

\* The parts of the state a specification does not use stay as they are here
NoEnv == [FORCE_REBUILD |-> Unset, GITHUB_TOKEN |-> Unset, REBUILD_ALL |-> Unset,
          REBUILD_TASKS |-> [state |-> "unset", names |-> {}],
          REQUIRED_ENVS |-> Unset, CODESIGN_IDENTITY |-> Unset, BUNDLE |-> Unset]

WorldIdle ==
    /\ config = [exists |-> FALSE, tasks |-> <<>>]
    /\ env = NoEnv
    /\ cache_file = [state |-> "missing", tasks |-> <<>>]

CCIdle ==
    /\ cc_pc = "idle"
    /\ cc_force_rebuild = FALSE
    /\ cc_devices_changed = FALSE
    /\ cc_rebuild_all = FALSE
    /\ cc_i = 0
    /\ cc_rebuild_tasks = {}
    /\ cc_log = <<>>
    /\ cc_output = <<>>
    /\ cc_exit = -1

RSIdle ==
    /\ rs_pc = "idle"
    /\ rs_rebuild_all = FALSE
    /\ rs_has_rebuild_tasks = FALSE
    /\ rs_rebuild_tasks_set = {}
    /\ rs_github_client = FALSE
    /\ rs_release_cache = <<>>
    /\ rs_i = 0
    /\ rs_should_rebuild = FALSE
    /\ rs_ipa_url = ""
    /\ rs_version_info = <<>>
    /\ rs_any_fail = FALSE
    /\ rs_exit = -1
    /\ rs_loaded = <<>>
    /\ rs_status = -1
    /\ rs_fetched = <<>>
    /\ rs_step = ""
    /\ rs_failed = {}
    /\ rs_rate_limited = FALSE
    /\ rs_seen = <<>>
    /\ server = <<>>

UnitIdle ==
    /\ fma_release = <<>>
    /\ fma_glob_pattern = ""
    /\ fma_asset = <<>>
    /\ vt_task = <<>>
    /\ vt_is_valid = FALSE

DecIdle ==
    /\ dec_task = <<>>
    /\ dec_cache = <<>>
    /\ dec_resp = <<>>
    /\ dec_client = FALSE
    /\ dec_force = FALSE
    /\ dec_check = <<>>
    /\ dec_signer = <<>>
    /\ dec_selected = <<>>

FnIdle ==
    /\ DecIdle
    /\ UnitIdle
    /\ data = <<>>
    /\ permuted = <<>>
    /\ sum_data = <<>>
    /\ sum_permuted = <<>>
    /\ cmp_result = <<>>
    /\ fn_pc = "idle"

-----------------------------------------------------------------------------
(* Bounds of the model *)

MaxDevices == 3        \* longest device list given to calculate_checksum
MaxSnapDevices == 2    \* longest device list inside a snapshot file
MaxTasks == 2          \* most tasks in configs/tasks.toml

-----------------------------------------------------------------------------
(* Devices.  A device is a dict; only "id" (the sort key) and one other    *)
(* field are kept.  id = NoId is a dict without the "id" key.  Ids are     *)
(* strings in the code; they are numbered in their lexicographic order.    *)

NoId == -1
DeviceIds == {NoId, 1, 2}
DeviceNames == {"iPhone", "iPad"}
Devices == [id : DeviceIds, name : DeviceNames]

RECURSIVE SeqsUpTo(_, _)
SeqsUpTo(S, n) ==
    IF n = 0 THEN { <<>> }
    ELSE LET shorter == SeqsUpTo(S, n - 1)
         IN  shorter \cup { Append(s, x) : s \in { t \in shorter : Len(t) = n - 1 }, x \in S }

\* lambda d: d.get("id", "")
SortKey(d) == IF d.id = NoId THEN 0 ELSE d.id

\* sorted() is stable: an element goes after every element whose key is <= its own
RECURSIVE InsertStable(_, _)
InsertStable(s, d) ==
    IF s = <<>> THEN <<d>>
    ELSE IF SortKey(Head(s)) <= SortKey(d)
         THEN <<Head(s)>> \o InsertStable(Tail(s), d)
         ELSE <<d>> \o s

RECURSIVE Sorted(_)
Sorted(s) ==
    IF s = <<>> THEN <<>>
    ELSE InsertStable(Sorted(SubSeq(s, 1, Len(s) - 1)), s[Len(s)])

\* hashlib.sha256(json_str).hexdigest(), prefixed with "sha256:"
Sha256(json_str) == <<"sha256", json_str>>

calculate_checksum(d) == Sha256(Sorted(d))

-----------------------------------------------------------------------------
(* Specification of calculate_checksum on a list and one of its permutations *)

Permute(s, p) == [k \in 1..Len(s) |-> s[p[k]]]

NoSnapshot == [devices |-> <<>>, checksum |-> <<>>]
NoFile == [state |-> "missing", json |-> NoSnapshot]

InitChecksum ==
    /\ data \in SeqsUpTo(Devices, MaxDevices)
    /\ permuted = <<>>
    /\ sum_data = <<>>
    /\ sum_permuted = <<>>
    /\ cached_file = NoFile
    /\ current_file = NoFile
    /\ cmp_result = <<>>
    /\ fn_pc = "start"
    /\ DecIdle
    /\ UnitIdle
    /\ WorldIdle
    /\ CCIdle
    /\ RSIdle

ChecksumBoth ==
    /\ fn_pc = "start"
    /\ \E p \in Permutations(1..Len(data)) :
         /\ permuted' = Permute(data, p)
         /\ sum_permuted' = calculate_checksum(Permute(data, p))
    /\ sum_data' = calculate_checksum(data)
    /\ fn_pc' = "done"
    /\ UNCHANGED <<data, cached_file, current_file, cmp_result, dec_vars, unit_vars,
                   world_vars, cc_vars, rs_vars>>

NextChecksum == ChecksumBoth

SpecChecksum == InitChecksum /\ [][NextChecksum]_vars

\* C10: calculate_checksum is invariant under reordering of its input, for
\* every device list, also one where several devices share an id or lack one:
\* the checksum of a list equals the checksum of each of its permutations.
C10_OrderIndependent ==
    fn_pc = "done" => sum_data = sum_permuted

-----------------------------------------------------------------------------
(* Device-list differ *)

\* A JSON file on disk: missing, unparsable, or holding a snapshot
FileStates == {"missing", "corrupt", "ok"}

\* load_json_file: None (<< >>) if the file does not exist or does not parse
load_json_file(file) ==
    IF file.state = "missing" THEN <<>>
    ELSE IF file.state = "corrupt" THEN <<>>
    ELSE <<file.json>>

\* The variant of compare_device_lists without the "current is None" branch
compare_device_lists_no_current_check(cached_path, current_path) ==
    LET cached == load_json_file(cached_path)
        current == load_json_file(current_path)
    IN  IF cached = <<>> THEN [changed |-> TRUE, cached |-> <<>>, current |-> current]
        ELSE IF current = <<>>
             THEN [changed |-> cached[1].checksum # calculate_checksum(<<>>),
                   cached |-> cached, current |-> <<>>]
        ELSE LET cur == IF current[1].checksum = <<>>
                        THEN calculate_checksum(current[1].devices)
                        ELSE current[1].checksum
             IN  [changed |-> cached[1].checksum # cur, cached |-> cached, current |-> current]

\* The variant of compare_device_lists that compares the device lists
compare_device_lists_by_list(cached_path, current_path) ==
    LET cached == load_json_file(cached_path)
        current == load_json_file(current_path)
    IN  IF cached = <<>> THEN [changed |-> TRUE, cached |-> <<>>, current |-> current]
        ELSE IF current = <<>> THEN [changed |-> TRUE, cached |-> cached, current |-> <<>>]
        ELSE [changed |-> Sorted(cached[1].devices) # Sorted(current[1].devices),
              cached |-> cached, current |-> current]

\* The variant of compare_device_lists that also calculates a missing cached checksum
compare_device_lists_both_calculated(cached_path, current_path) ==
    LET cached == load_json_file(cached_path)
        current == load_json_file(current_path)
    IN  IF cached = <<>>
        THEN [changed |-> TRUE, cached |-> <<>>, current |-> current]
        ELSE IF current = <<>>
        THEN [changed |-> TRUE, cached |-> cached, current |-> <<>>]
        ELSE LET cached_checksum == IF cached[1].checksum = <<>>
                                    THEN calculate_checksum(cached[1].devices)
                                    ELSE cached[1].checksum
                 stored == current[1].checksum
                 current_checksum == IF stored = <<>>
                                     THEN calculate_checksum(current[1].devices)
                                     ELSE stored
             IN  IF cached_checksum # current_checksum
                 THEN [changed |-> TRUE, cached |-> cached, current |-> current]
                 ELSE [changed |-> FALSE, cached |-> cached, current |-> current]

\* compare_device_lists: (devices_changed, cached_data, current_data).  The
\* added/removed report on a mismatch only prints.
compare_device_lists(cached_path, current_path) ==
    LET cached == load_json_file(cached_path)
        current == load_json_file(current_path)
    IN  IF cached = <<>>
        THEN [changed |-> TRUE, cached |-> <<>>, current |-> current]
        ELSE IF current = <<>>
        THEN [changed |-> TRUE, cached |-> cached, current |-> <<>>]
        ELSE LET cached_checksum == cached[1].checksum
                 stored == current[1].checksum
                 current_checksum == IF stored = <<>>
                                     THEN calculate_checksum(current[1].devices)
                                     ELSE stored
             IN  IF cached_checksum # current_checksum
                 THEN [changed |-> TRUE, cached |-> cached, current |-> current]
                 ELSE [changed |-> FALSE, cached |-> cached, current |-> current]

\* A checksum that belongs to no list of the model
StaleChecksum == calculate_checksum(<<[id |-> 9, name |-> "retired"]>>)

\* The checksum field of a snapshot: missing/empty, the checksum of its own
\* list, the checksum of the other file's list, or an unrelated one
ChecksumFields(own, other) ==
    {<<>>, calculate_checksum(own), calculate_checksum(other), StaleChecksum}

SnapLists == SeqsUpTo(Devices, MaxSnapDevices)

SnapshotFiles(own, other) ==
    {NoFile, [state |-> "corrupt", json |-> NoSnapshot]}
    \cup { [state |-> "ok", json |-> [devices |-> own, checksum |-> c]] :
             c \in ChecksumFields(own, other) }

InitDiffer ==
    /\ data = <<>>
    /\ permuted = <<>>
    /\ sum_data = <<>>
    /\ sum_permuted = <<>>
    /\ \E a \in SnapLists, b \in SnapLists :
         /\ cached_file \in SnapshotFiles(a, b)
         /\ current_file \in SnapshotFiles(b, a)
    /\ cmp_result = <<>>
    /\ fn_pc = "start"
    /\ DecIdle
    /\ UnitIdle
    /\ WorldIdle
    /\ CCIdle
    /\ RSIdle

CompareDeviceLists ==
    /\ fn_pc = "start"
    /\ cmp_result' = <<compare_device_lists(cached_file, current_file)>>
    /\ fn_pc' = "done"
    /\ UNCHANGED <<data, permuted, sum_data, sum_permuted, cached_file, current_file,
                   dec_vars, unit_vars, world_vars, cc_vars, rs_vars>>

NextDiffer == CompareDeviceLists

SpecDiffer == InitDiffer /\ [][NextDiffer]_vars

Absent(file) == file.state \in {"missing", "corrupt"}

\* C8: compare_device_lists returns changed=True whenever the cached snapshot
\* is absent (missing or unparsable file) and whenever the current snapshot is
\* absent, whatever the other snapshot holds; the absent side is returned None.
C8_AbsentSideMeansChanged ==
    fn_pc = "done" =>
        /\ Absent(cached_file) =>
             cmp_result[1].changed /\ cmp_result[1].cached = <<>>
        /\ Absent(current_file) =>
             cmp_result[1].changed /\ cmp_result[1].current = <<>>

C8_Witness ==
    /\ fn_pc = "done"
    /\ cached_file.state = "ok"
    /\ cached_file.json.checksum = calculate_checksum(cached_file.json.devices)
    /\ current_file.state = "corrupt"
    /\ cmp_result[1].changed
    /\ cmp_result[1].current = <<>>
    /\ cmp_result[1].cached = <<cached_file.json>>

\* C9: when both snapshots exist, compare_device_lists returns changed=False
\* iff the cached checksum equals the current checksum, the current checksum
\* being the stored field or, if that is missing/empty, calculate_checksum of
\* the current device list; the device lists themselves are not compared.
C9_ChecksumToChecksum ==
    (fn_pc = "done" /\ ~Absent(cached_file) /\ ~Absent(current_file)) =>
        LET stored == current_file.json.checksum
            effective == IF stored = <<>>
                         THEN calculate_checksum(current_file.json.devices)
                         ELSE stored
        IN  (cmp_result[1].changed = FALSE) <=> (cached_file.json.checksum = effective)

\* same device lists, changed=True because the stored checksums differ
C9_Witness ==
    /\ fn_pc = "done"
    /\ ~Absent(cached_file) /\ ~Absent(current_file)
    /\ Len(cached_file.json.devices) = 2
    /\ cached_file.json.devices = current_file.json.devices
    /\ cached_file.json.checksum = calculate_checksum(cached_file.json.devices)
    /\ current_file.json.checksum = StaleChecksum
    /\ cmp_result[1].changed

-----------------------------------------------------------------------------
(* Tasks, releases and the release cache *)

\* Repository URLs of the model and what re.search(github\.com[:/]([^/]+)/([^/\.]+))
\* finds in them: <<owner, repo>>, or << >> when nothing matches (ValueError)
RepoUrlHttps == "https://github.com/owner/app"
RepoUrlSsh == "git@github.com:owner/app.git"
RepoUrlGitlab == "https://gitlab.com/owner/app"

parse_repo_url(repo_url) ==
    IF repo_url = RepoUrlHttps THEN <<"owner", "app">>
    ELSE IF repo_url = RepoUrlSsh THEN <<"owner", "app">>
    ELSE <<>>

IpaUrlHttps == "https://cdn.example/app.ipa"
IpaUrlFtp == "ftp://cdn.example/app.ipa"

\* A task of configs/tasks.toml; a key that is not set is ""
Task(name, ipa, repo, pre) ==
    [task_name |-> name, app_name |-> "App", bundle_id |-> "com.example.app",
     asset_server_path |-> "/srv/ipa/", ipa_url |-> ipa, repo_url |-> repo,
     use_prerelease |-> pre, release_glob |-> "*.ipa"]

\* Release assets and fnmatch.fnmatch(name, pattern) on their names
AssetIpa == [name |-> "app.ipa", browser_download_url |-> "https://dl/app.ipa", id |-> 1]
AssetDebug == [name |-> "app-debug.ipa", browser_download_url |-> "https://dl/app-debug.ipa", id |-> 2]
AssetApk == [name |-> "app.apk", browser_download_url |-> "https://dl/app.apk", id |-> 3]

fnmatch(name, pattern) ==
    <<name, pattern>> \in {<<"app.ipa", "*.ipa">>, <<"app-debug.ipa", "*.ipa">>,
                           <<"app-debug.ipa", "*-debug.ipa">>, <<"app.apk", "*.apk">>}

Tags == {"v1", "v2"}
Times == {"t1", "t2"}
AssetLists == {<<>>, <<AssetApk>>, <<AssetApk, AssetIpa>>}
Releases == [tag_name : Tags, published_at : Times, prerelease : BOOLEAN, assets : AssetLists]

\* An older stable release that follows the newest one in a release list
OlderStable == [tag_name |-> "v0", published_at |-> "t0", prerelease |-> FALSE,
                assets |-> <<AssetIpa>>]

\* What the GitHub API answers to one request: status 200 with a body (the
\* release list; for /releases/latest the one release), an HTTP error status,
\* or no answer at all (status 0: URLError)
HttpErrors == {403, 404, 500}
NetworkError == 0
ErrorResponses == [status : HttpErrors \cup {NetworkError}, body : {<<>>}]
LatestResponses == ErrorResponses \cup [status : {200}, body : {<<r>> : r \in Releases}]
ListResponses ==
    ErrorResponses
    \cup [status : {200},
          body : {<<>>} \cup {<<r>> : r \in Releases}
                 \cup {<<r, OlderStable>> : r \in Releases}
                 \cup {<<OlderStable, r>> : r \in Releases}]
NoResponse == [status |-> -1, body |-> <<>>]

\* The answer to the request a task's check makes
Responses(task) == IF task.use_prerelease THEN ListResponses ELSE LatestResponses

\* A release-cache entry; the cache maps the names that have one to it
CacheEntry(v, t, a) ==
    [version |-> v, published_at |-> t,
     download_url |-> a.browser_download_url, asset_id |-> a.id]

\* dict.get(task_name, {}).get(field): "" (None) when there is no entry
CachedField(cached_versions, task_name, field) ==
    IF task_name \in DOMAIN cached_versions THEN cached_versions[task_name][field] ELSE ""

-----------------------------------------------------------------------------
(* check_changes.py: release checker *)

\* The last entry of the list flagged prerelease, not the first
FirstPrerelease_last(releases) ==
    LET flagged == { k \in DOMAIN releases : releases[k].prerelease }
    IN  IF flagged = {} THEN <<>>
        ELSE <<releases[CHOOSE k \in flagged : \A j \in flagged : j <= k]>>

\* The release check_github_release_version reads from a 200 answer:
\* << >> when use_prerelease and the list is empty
RECURSIVE FirstPrerelease(_)
FirstPrerelease(releases) ==
    IF releases = <<>> THEN <<>>
    ELSE IF Head(releases).prerelease THEN <<Head(releases)>>
    ELSE FirstPrerelease(Tail(releases))

CheckerRelease(use_prerelease, body) ==
    IF use_prerelease
    THEN LET release == FirstPrerelease(body)
         IN  IF release = <<>> /\ body # <<>> THEN <<body[1]>> ELSE release
    ELSE <<body[1]>>

CheckerResult(changed, why, code) == [has_changed |-> changed, reason |-> why, exit |-> code]

\* check_github_release_version that compares the tag only
check_github_release_version_tag_only(task, task_name, cached_versions, resp) ==
    IF task.repo_url = "" THEN CheckerResult(FALSE, "", -1)
    ELSE IF parse_repo_url(task.repo_url) = <<>>
    THEN CheckerResult(TRUE, "invalid_repo_url", -1)
    ELSE IF resp.status = 403 THEN CheckerResult(TRUE, "rate_limit", 1)
    ELSE IF resp.status \in HttpErrors THEN CheckerResult(TRUE, "api_error", -1)
    ELSE IF resp.status = NetworkError THEN CheckerResult(TRUE, "api_error", -1)
    ELSE LET release == CheckerRelease(task.use_prerelease, resp.body)
         IN  IF release = <<>> THEN CheckerResult(TRUE, "no_releases", -1)
             ELSE LET current_version == release[1].tag_name
                      current_published_at == release[1].published_at
                      cached_version == CachedField(cached_versions, task_name, "version")
                      cached_published_at ==
                          CachedField(cached_versions, task_name, "published_at")
                  IN  IF cached_version = "" THEN CheckerResult(TRUE, "first_run", -1)
                      ELSE IF cached_version # current_version
                      THEN CheckerResult(TRUE, "version_changed", -1)
                      ELSE CheckerResult(FALSE, "up_to_date", -1)

\* check_github_release_version that compares published_at before the tag
check_github_release_version_time_first(task, task_name, cached_versions, resp) ==
    IF task.repo_url = "" THEN CheckerResult(FALSE, "", -1)
    ELSE IF parse_repo_url(task.repo_url) = <<>>
    THEN CheckerResult(TRUE, "invalid_repo_url", -1)
    ELSE IF resp.status = 403 THEN CheckerResult(TRUE, "rate_limit", 1)
    ELSE IF resp.status \in HttpErrors THEN CheckerResult(TRUE, "api_error", -1)
    ELSE IF resp.status = NetworkError THEN CheckerResult(TRUE, "api_error", -1)
    ELSE LET release == CheckerRelease(task.use_prerelease, resp.body)
         IN  IF release = <<>> THEN CheckerResult(TRUE, "no_releases", -1)
             ELSE LET current_version == release[1].tag_name
                      current_published_at == release[1].published_at
                      cached_version == CachedField(cached_versions, task_name, "version")
                      cached_published_at ==
                          CachedField(cached_versions, task_name, "published_at")
                  IN  IF cached_version = "" THEN CheckerResult(TRUE, "first_run", -1)
                      ELSE IF cached_published_at # current_published_at
                      THEN CheckerResult(TRUE, "republished", -1)
                      ELSE IF cached_version # current_version
                      THEN CheckerResult(TRUE, "version_changed", -1)
                      ELSE CheckerResult(FALSE, "up_to_date", -1)

\* check_github_release_version: (has_changed, reason); exit = 1 is sys.exit(1).
\* resp is the answer to the one request it makes (not read when it makes none).
check_github_release_version(task, task_name, cached_versions, resp) ==
    IF task.repo_url = "" THEN CheckerResult(FALSE, "", -1)
    ELSE IF parse_repo_url(task.repo_url) = <<>>
    THEN CheckerResult(TRUE, "invalid_repo_url", -1)
    ELSE IF resp.status = 403 THEN CheckerResult(TRUE, "rate_limit", 1)
    ELSE IF resp.status \in HttpErrors THEN CheckerResult(TRUE, "api_error", -1)
    ELSE IF resp.status = NetworkError THEN CheckerResult(TRUE, "api_error", -1)
    ELSE LET release == CheckerRelease(task.use_prerelease, resp.body)
         IN  IF release = <<>> THEN CheckerResult(TRUE, "no_releases", -1)
             ELSE LET current_version == release[1].tag_name
                      current_published_at == release[1].published_at
                      cached_version == CachedField(cached_versions, task_name, "version")
                      cached_published_at ==
                          CachedField(cached_versions, task_name, "published_at")
                  IN  IF cached_version = "" THEN CheckerResult(TRUE, "first_run", -1)
                      ELSE IF cached_version # current_version
                      THEN CheckerResult(TRUE, "version_changed", -1)
                      ELSE IF cached_published_at # current_published_at
                      THEN CheckerResult(TRUE, "republished", -1)
                      ELSE CheckerResult(FALSE, "up_to_date", -1)

\* Whether check_github_release_version sends a request for the task
CheckerRequests(task) == task.repo_url # "" /\ parse_repo_url(task.repo_url) # <<>>

-----------------------------------------------------------------------------
(* check_changes.py: planner and main *)

TaskNames == <<"A", "B", "C", "D">>

\* The tasks a configuration may hold; check_changes does not validate them
TaskKinds(name) ==
    { Task(name, IpaUrlHttps, "", FALSE),       \* DirectURL
      Task(name, "", RepoUrlHttps, FALSE),      \* ReleaseTracked, latest stable
      Task(name, "", RepoUrlSsh, TRUE),         \* ReleaseTracked, prerelease
      Task(name, "", RepoUrlGitlab, FALSE),     \* repo_url that is no GitHub URL
      Task(name, IpaUrlHttps, RepoUrlHttps, FALSE),  \* both sources
      Task(name, "", "", FALSE),                \* no source
      Task("", IpaUrlHttps, "", FALSE) }        \* no task_name

\* Tasks of a configuration given to run_signing: those of TaskKinds, a task
\* without bundle_id and a task whose ipa_url is no HTTP(S) URL
SignTaskKinds(name) ==
    TaskKinds(name)
    \cup { [Task(name, IpaUrlHttps, "", FALSE) EXCEPT !.bundle_id = ""],
           Task(name, IpaUrlFtp, "", FALSE) }

\* Task lists of n tasks, the k-th named TaskNames[k] (or unnamed), for
\* run_signing (signing) or for check_changes
RECURSIVE TaskLists(_, _)
TaskLists(signing, n) ==
    IF n = 0 THEN { <<>> }
    ELSE { Append(ts, t) : ts \in TaskLists(signing, n - 1),
                           t \in IF signing THEN SignTaskKinds(TaskNames[n])
                                            ELSE TaskKinds(TaskNames[n]) }

Configs(signing) ==
    UNION { TaskLists(signing, n) : n \in 0..MaxTasks }

NamesOf(ts) == { ts[k].task_name : k \in DOMAIN ts } \ {""}

\* The release cache files: missing, unparsable, or entries for some of the names
StoredEntry == CacheEntry("v1", "t1", AssetIpa)
CacheFiles(names) ==
    { [state |-> "missing", tasks |-> <<>>], [state |-> "corrupt", tasks |-> <<>>] }
    \cup { [state |-> "ok", tasks |-> [n \in S |-> StoredEntry]] : S \in SUBSET names }

\* str.lower() on the values FORCE_REBUILD / REBUILD_ALL take
Lower(v) == IF v = "TRUE" THEN "true" ELSE IF v = "Yes" THEN "yes" ELSE v

\* os.getenv(name, "false").lower() in ("true", "1", "yes")
FlagSet(v) == Lower(IF v = Unset THEN "false" ELSE v) \in {"true", "1", "yes"}

FlagValues == {Unset, "TRUE", "1", "Yes", "on"}

\* all_task_names that holds the version-tracked tasks only
all_task_names_tracked(ts) ==
    { ts[k].task_name : k \in { j \in DOMAIN ts : ts[j].task_name # "" /\ ts[j].repo_url # "" } }

\* all_task_names = {task.get("task_name") for task in tasks if task.get("task_name")}
all_task_names(ts) == { ts[k].task_name : k \in { j \in DOMAIN ts : ts[j].task_name # "" } }

\* release_cache.get("tasks", {}) if release_cache else {}
cached_versions_of(file) == IF file.state = "ok" THEN file.tasks ELSE <<>>

\* The loop of get_tasks_to_rebuild that drops a task without any source
PlanTask_drop_sourceless(task, cached_versions, resp) ==
    IF task.task_name = ""
    THEN [add |-> FALSE, reason |-> "", has_changed |-> FALSE, exit |-> -1]
    ELSE IF task.ipa_url # ""
    THEN [add |-> TRUE, reason |-> "", has_changed |-> FALSE, exit |-> -1]
    ELSE IF task.repo_url # ""
    THEN LET r == check_github_release_version(task, task.task_name, cached_versions, resp)
         IN  [add |-> r.has_changed, reason |-> r.reason, has_changed |-> r.has_changed,
              exit |-> r.exit]
    ELSE [add |-> FALSE, reason |-> "", has_changed |-> FALSE, exit |-> -1]

\* One pass of the loop of get_tasks_to_rebuild over a task: whether the task
\* joins rebuild_tasks, what the checker answered (reason "" when it was not
\* asked), whether the process exits
PlanTask(task, cached_versions, resp) ==
    IF task.task_name = ""
    THEN [add |-> FALSE, reason |-> "", has_changed |-> FALSE, exit |-> -1]
    ELSE IF task.ipa_url # ""
    THEN [add |-> TRUE, reason |-> "", has_changed |-> FALSE, exit |-> -1]
    ELSE IF task.repo_url # ""
    THEN LET r == check_github_release_version(task, task.task_name, cached_versions, resp)
         IN  [add |-> r.has_changed, reason |-> r.reason, has_changed |-> r.has_changed,
              exit |-> r.exit]
    ELSE [add |-> TRUE, reason |-> "", has_changed |-> FALSE, exit |-> -1]

\* Device-list files main may find: first run, collector failure, unchanged
\* (stored or computed checksum), changed
OneDevice == <<[id |-> 1, name |-> "iPhone"]>>
TwoDevices == <<[id |-> 2, name |-> "iPad"], [id |-> 1, name |-> "iPhone"]>>
Snapshot(devs, sum) == [state |-> "ok", json |-> [devices |-> devs, checksum |-> sum]]
DeviceFilePairs ==
    { <<NoFile, Snapshot(OneDevice, calculate_checksum(OneDevice))>>,
      <<Snapshot(OneDevice, calculate_checksum(OneDevice)), NoFile>>,
      <<Snapshot(OneDevice, calculate_checksum(OneDevice)),
        Snapshot(OneDevice, calculate_checksum(OneDevice))>>,
      <<Snapshot(OneDevice, calculate_checksum(OneDevice)),
        Snapshot(TwoDevices, calculate_checksum(TwoDevices))>>,
      <<Snapshot(OneDevice, calculate_checksum(OneDevice)), Snapshot(TwoDevices, <<>>)>> }

InitCheck ==
    /\ FnIdle
    /\ \E pair \in DeviceFilePairs : cached_file = pair[1] /\ current_file = pair[2]
    /\ \E ts \in Configs(FALSE) :
         /\ config \in { [exists |-> TRUE, tasks |-> ts] }
                       \cup (IF ts = <<>> THEN { [exists |-> FALSE, tasks |-> <<>>] } ELSE {})
         /\ cache_file \in CacheFiles(NamesOf(ts))
    /\ \E force \in FlagValues, token \in {Unset, "ghs_token"} :
         env = [NoEnv EXCEPT !.FORCE_REBUILD = force, !.GITHUB_TOKEN = token]
    /\ cc_pc = "start"
    /\ cc_force_rebuild = FALSE
    /\ cc_devices_changed = FALSE
    /\ cc_rebuild_all = FALSE
    /\ cc_i = 0
    /\ cc_rebuild_tasks = {}
    /\ cc_log = <<>>
    /\ cc_output = <<>>
    /\ cc_exit = -1
    /\ RSIdle

\* rebuild_all = force_rebuild or devices_changed
main_rebuild_all(force_rebuild, devices_changed) == force_rebuild \/ devices_changed

\* main up to the call of get_tasks_to_rebuild, and that call's first lines
CCStart ==
    /\ cc_pc = "start"
    /\ UNCHANGED <<fn_vars, world_vars, rs_vars, cc_log, cc_output>>
    /\ IF ~config.exists
       THEN \* load_tasks: sys.exit(2)
            /\ cc_pc' = "done" /\ cc_exit' = 2
            /\ UNCHANGED <<cc_force_rebuild, cc_devices_changed, cc_rebuild_all, cc_i,
                           cc_rebuild_tasks>>
       ELSE LET force_rebuild == FlagSet(env.FORCE_REBUILD)
                has_repo_tasks == \E k \in DOMAIN config.tasks : config.tasks[k].repo_url # ""
                devices_changed == compare_device_lists(cached_file, current_file).changed
                rebuild_all == main_rebuild_all(force_rebuild, devices_changed)
            IN  /\ cc_force_rebuild' = force_rebuild
                /\ cc_devices_changed' = devices_changed
                /\ cc_rebuild_all' = rebuild_all
                /\ IF has_repo_tasks /\ env.GITHUB_TOKEN = Unset
                   THEN /\ cc_pc' = "done" /\ cc_exit' = 2
                        /\ UNCHANGED <<cc_i, cc_rebuild_tasks>>
                   ELSE IF rebuild_all
                   THEN /\ cc_rebuild_tasks' = all_task_names(config.tasks)
                        /\ cc_pc' = "output"
                        /\ UNCHANGED <<cc_i, cc_exit>>
                   ELSE /\ cc_rebuild_tasks' = {}
                        /\ cc_i' = 1
                        /\ cc_pc' = "loop"
                        /\ UNCHANGED cc_exit

\* One iteration of "for task in tasks" in get_tasks_to_rebuild
CCPlanTask ==
    /\ cc_pc = "loop"
    /\ cc_i <= Len(config.tasks)
    /\ UNCHANGED <<fn_vars, world_vars, rs_vars, cc_force_rebuild, cc_devices_changed,
                   cc_rebuild_all, cc_output>>
    /\ LET task == config.tasks[cc_i]
       IN  \E resp \in (IF task.task_name # "" /\ task.ipa_url = "" /\ CheckerRequests(task)
                        THEN Responses(task) ELSE {NoResponse}) :
             LET step == PlanTask(task, cached_versions_of(cache_file), resp)
             IN  /\ cc_log' = Append(cc_log, [status |-> resp.status,
                                              reason |-> step.reason,
                                              has_changed |-> step.has_changed])
                 /\ IF step.exit # -1
                    THEN /\ cc_pc' = "done" /\ cc_exit' = step.exit
                         /\ UNCHANGED <<cc_i, cc_rebuild_tasks>>
                    ELSE /\ cc_rebuild_tasks' =
                              (IF step.add THEN cc_rebuild_tasks \cup {task.task_name}
                               ELSE cc_rebuild_tasks)
                         /\ cc_i' = cc_i + 1
                         /\ UNCHANGED <<cc_pc, cc_exit>>

\* get_tasks_to_rebuild returns; main writes the outputs and returns 0
CCOutput ==
    /\ \/ cc_pc = "output"
       \/ cc_pc = "loop" /\ cc_i > Len(config.tasks)
    /\ cc_output' = <<[rebuild_all |-> cc_rebuild_all, rebuild_tasks |-> cc_rebuild_tasks]>>
    /\ cc_pc' = "done"
    /\ cc_exit' = 0
    /\ UNCHANGED <<fn_vars, world_vars, rs_vars, cc_force_rebuild, cc_devices_changed,
                   cc_rebuild_all, cc_i, cc_rebuild_tasks, cc_log>>

NextCheck == CCStart \/ CCPlanTask \/ CCOutput

SpecCheck == InitCheck /\ [][NextCheck]_vars

\* get_tasks_to_rebuild has returned its set
PlannerReturned == cc_pc = "output" \/ (cc_pc = "done" /\ cc_exit = 0)

\* C6: when the global rebuild-all flag is true, get_tasks_to_rebuild returns
\* exactly the set of all configured task names, whatever the release cache
\* holds and whatever upstream is; and in check_changes.main the flag is true
\* iff FORCE_REBUILD is set to true/1/yes (in any case) or compare_device_lists
\* reports a change.
C6_RebuildAllReturnsAll ==
    /\ (PlannerReturned /\ cc_rebuild_all) => cc_rebuild_tasks = NamesOf(config.tasks)
    /\ (cc_pc # "start" /\ config.exists) =>
         (cc_rebuild_all <=>
            \/ env.FORCE_REBUILD \in {"TRUE", "1", "Yes"}
            \/ compare_device_lists(cached_file, current_file).changed)

\* rebuild-all because the device list changed, not forced; both tasks returned
\* although A is a release-tracked task with a cache entry
C6_Witness ==
    /\ cc_pc = "done" /\ cc_exit = 0
    /\ cc_rebuild_all /\ ~cc_force_rebuild
    /\ Len(config.tasks) = 2
    /\ config.tasks[1] = Task("A", "", RepoUrlHttps, FALSE)
    /\ config.tasks[2].ipa_url # ""
    /\ cache_file.state = "ok" /\ "A" \in DOMAIN cache_file.tasks
    /\ cc_rebuild_tasks = {"A", "B"}

\* What the claim C7 expects of the task the loop visited k-th
C7_Expected(k) ==
    LET task == config.tasks[k]
    IN  \/ task.ipa_url # ""
        \/ task.repo_url # "" /\ cc_log[k].has_changed
        \/ task.ipa_url = "" /\ task.repo_url = ""

\* C7: when rebuild_all is false, get_tasks_to_rebuild returns exactly: every
\* task with ipa_url, every task with repo_url for which the checker reports
\* should_rebuild=true (none for which it reports false), and every task that
\* has neither ipa_url nor repo_url.
C7_PlannerPerTask ==
    (cc_pc = "done" /\ cc_exit = 0 /\ ~cc_rebuild_all) =>
        cc_rebuild_tasks =
            { config.tasks[k].task_name :
                k \in { j \in DOMAIN config.tasks :
                          config.tasks[j].task_name # "" /\ C7_Expected(j) } }

\* a direct task in, an up-to-date tracked task out
C7_Witness ==
    /\ cc_pc = "done" /\ cc_exit = 0 /\ ~cc_rebuild_all
    /\ Len(config.tasks) = 2
    /\ config.tasks[1].ipa_url = "" /\ config.tasks[1].repo_url # ""
    /\ cc_log[1].reason = "up_to_date"
    /\ config.tasks[2].ipa_url = "" /\ config.tasks[2].repo_url = ""
    /\ cc_rebuild_tasks = {"B"}

\* C5 (check_changes side): an HTTP 404 from the release endpoint is not fatal
\* and is classified as "no release" (reason no_releases), not as api_error.
C5_NotFoundIsNoRelease ==
    \A k \in DOMAIN cc_log :
        cc_log[k].status = 404 => (cc_exit \in {-1, 0} /\ cc_log[k].reason = "no_releases")

-----------------------------------------------------------------------------
(* run_signing.py: GitHub client, validation, should_rebuild_task *)

\* GitHubAPIClient._make_request: the JSON of a 200 answer; every other answer
\* is raised (HTTPError with its code, URLError as code 0)
make_request(resp) ==
    [raised |-> resp.status # 200, code |-> resp.status, json |-> resp.body]

\* GitHubAPIClient.fetch_latest_release: the release (<< >> is None), or raised
fetch_latest_release(use_prerelease, resp) ==
    LET r == make_request(resp)
    IN  IF ~use_prerelease
        THEN IF ~r.raised THEN [raised |-> FALSE, release |-> <<r.json[1]>>]
             ELSE IF r.code = 404 THEN [raised |-> FALSE, release |-> <<>>]
             ELSE [raised |-> TRUE, release |-> <<>>]
        ELSE IF ~r.raised
             THEN IF r.json = <<>> THEN [raised |-> FALSE, release |-> <<>>]
                  ELSE IF FirstPrerelease(r.json) # <<>>
                  THEN [raised |-> FALSE, release |-> FirstPrerelease(r.json)]
                  ELSE [raised |-> FALSE, release |-> <<r.json[1]>>]
             ELSE IF r.code = 404 THEN [raised |-> FALSE, release |-> <<>>]
             ELSE [raised |-> TRUE, release |-> <<>>]

\* find_matching_asset that returns the last match when several assets match
find_matching_asset_last(release, glob_pattern) ==
    LET assets == release.assets
        Matches(a) == fnmatch(a.name, glob_pattern)
        matched_assets == SelectSeq(assets, Matches)
    IN  IF assets = <<>> THEN <<>>
        ELSE IF matched_assets = <<>> THEN <<>>
        ELSE <<matched_assets[Len(matched_assets)]>>

\* GitHubAPIClient.find_matching_asset: the first asset whose name matches
find_matching_asset(release, glob_pattern) ==
    LET assets == release.assets
        Matches(a) == fnmatch(a.name, glob_pattern)
        matched_assets == SelectSeq(assets, Matches)
    IN  IF assets = <<>> THEN <<>>
        ELSE IF matched_assets = <<>> THEN <<>>
        ELSE <<matched_assets[1]>>

\* version_info that records the first listed asset, not the matched one
version_info_of_first_asset(release, asset) ==
    [version |-> release.tag_name, published_at |-> release.published_at,
     download_url |-> release.assets[1].browser_download_url,
     asset_id |-> release.assets[1].id]

\* version_info that leaves out the publication time of the release
version_info_of_untimed(release, asset) ==
    [version |-> release.tag_name, published_at |-> "",
     download_url |-> asset.browser_download_url, asset_id |-> asset.id]

\* The version_info should_rebuild_task prepares for the cache
version_info_of(release, asset) ==
    [version |-> release.tag_name, published_at |-> release.published_at,
     download_url |-> asset.browser_download_url, asset_id |-> asset.id]

Decision(rebuild, url, info) ==
    [should_rebuild |-> rebuild, download_url |-> url, version_info |-> info]

\* should_rebuild_task that rebuilds a task whose release the cache records
should_rebuild_task_rebuild_same(task, task_name, cache_tasks, github_client, force_rebuild, resp) ==
    IF task.ipa_url # "" THEN Decision(TRUE, task.ipa_url, <<>>)
    ELSE IF task.repo_url # "" /\ github_client
    THEN IF parse_repo_url(task.repo_url) = <<>> THEN Decision(FALSE, "", <<>>)
         ELSE LET got == fetch_latest_release(task.use_prerelease, resp)
              IN  IF got.raised THEN Decision(FALSE, "", <<>>)
                  ELSE IF got.release = <<>> THEN Decision(FALSE, "", <<>>)
                  ELSE LET release == got.release[1]
                           found == find_matching_asset(release, task.release_glob)
                       IN  IF found = <<>> THEN Decision(FALSE, "", <<>>)
                           ELSE LET asset == found[1]
                                    current_version == release.tag_name
                                    current_published_at == release.published_at
                                    download_url == asset.browser_download_url
                                    version_info == version_info_of(release, asset)
                                    cached_version ==
                                        CachedField(cache_tasks, task_name, "version")
                                    cached_published_at ==
                                        CachedField(cache_tasks, task_name, "published_at")
                                IN  IF force_rebuild
                                    THEN Decision(TRUE, download_url, <<version_info>>)
                                    ELSE IF cached_version = ""
                                    THEN Decision(TRUE, download_url, <<version_info>>)
                                    ELSE IF cached_version # current_version
                                    THEN Decision(TRUE, download_url, <<version_info>>)
                                    ELSE IF cached_published_at # current_published_at
                                    THEN Decision(TRUE, download_url, <<version_info>>)
                                    ELSE Decision(TRUE, download_url, <<version_info>>)
    ELSE Decision(TRUE, "", <<>>)

\* should_rebuild_task that compares with the cache although force_rebuild is set
should_rebuild_task_force_compares(task, task_name, cache_tasks, github_client, force_rebuild, resp) ==
    IF task.ipa_url # "" THEN Decision(TRUE, task.ipa_url, <<>>)
    ELSE IF task.repo_url # "" /\ github_client
    THEN IF parse_repo_url(task.repo_url) = <<>> THEN Decision(FALSE, "", <<>>)
         ELSE LET got == fetch_latest_release(task.use_prerelease, resp)
              IN  IF got.raised THEN Decision(FALSE, "", <<>>)
                  ELSE IF got.release = <<>> THEN Decision(FALSE, "", <<>>)
                  ELSE LET release == got.release[1]
                           found == find_matching_asset(release, task.release_glob)
                       IN  IF found = <<>> THEN Decision(FALSE, "", <<>>)
                           ELSE LET asset == found[1]
                                    current_version == release.tag_name
                                    current_published_at == release.published_at
                                    download_url == asset.browser_download_url
                                    version_info == version_info_of(release, asset)
                                    cached_version ==
                                        CachedField(cache_tasks, task_name, "version")
                                    cached_published_at ==
                                        CachedField(cache_tasks, task_name, "published_at")
                                IN  IF cached_version = ""
                                    THEN Decision(TRUE, download_url, <<version_info>>)
                                    ELSE IF cached_version # current_version
                                    THEN Decision(TRUE, download_url, <<version_info>>)
                                    ELSE IF cached_published_at # current_published_at
                                    THEN Decision(TRUE, download_url, <<version_info>>)
                                    ELSE Decision(FALSE, download_url, <<>>)
    ELSE Decision(TRUE, "", <<>>)

\* should_rebuild_task: (should_rebuild, download_url, version_info_to_cache).
\* cache_tasks is cache_data["tasks"]; resp is the answer to the request it
\* makes.  Every exception inside the try block ends in (False, None, None).
should_rebuild_task(task, task_name, cache_tasks, github_client, force_rebuild, resp) ==
    IF task.ipa_url # "" THEN Decision(TRUE, task.ipa_url, <<>>)
    ELSE IF task.repo_url # "" /\ github_client
    THEN IF parse_repo_url(task.repo_url) = <<>> THEN Decision(FALSE, "", <<>>)
         ELSE LET got == fetch_latest_release(task.use_prerelease, resp)
              IN  IF got.raised THEN Decision(FALSE, "", <<>>)
                  ELSE IF got.release = <<>> THEN Decision(FALSE, "", <<>>)
                  ELSE LET release == got.release[1]
                           found == find_matching_asset(release, task.release_glob)
                       IN  IF found = <<>> THEN Decision(FALSE, "", <<>>)
                           ELSE LET asset == found[1]
                                    current_version == release.tag_name
                                    current_published_at == release.published_at
                                    download_url == asset.browser_download_url
                                    version_info == version_info_of(release, asset)
                                    cached_version ==
                                        CachedField(cache_tasks, task_name, "version")
                                    cached_published_at ==
                                        CachedField(cache_tasks, task_name, "published_at")
                                IN  IF force_rebuild
                                    THEN Decision(TRUE, download_url, <<version_info>>)
                                    ELSE IF cached_version = ""
                                    THEN Decision(TRUE, download_url, <<version_info>>)
                                    ELSE IF cached_version # current_version
                                    THEN Decision(TRUE, download_url, <<version_info>>)
                                    ELSE IF cached_published_at # current_published_at
                                    THEN Decision(TRUE, download_url, <<version_info>>)
                                    ELSE Decision(FALSE, download_url, <<>>)
    ELSE Decision(TRUE, "", <<>>)

\* Whether should_rebuild_task sends a request for the task
SignerRequests(task, github_client) ==
    /\ task.ipa_url = ""
    /\ task.repo_url # "" /\ github_client
    /\ parse_repo_url(task.repo_url) # <<>>

\* ipa_url.startswith(("http://", "https://")) on the URLs of the model
StartsWithHttp(url) == url \in {IpaUrlHttps, "http://cdn.example/app.ipa"}

\* validate_task that does not reject a task with both sources
validate_task_allow_both(task) ==
    IF task.task_name = "" \/ task.app_name = "" \/ task.bundle_id = ""
       \/ task.asset_server_path = ""
    THEN FALSE
    ELSE IF task.ipa_url = "" /\ task.repo_url = "" THEN FALSE
    ELSE IF task.ipa_url # "" /\ ~StartsWithHttp(task.ipa_url) THEN FALSE
    ELSE IF task.repo_url # "" /\ parse_repo_url(task.repo_url) = <<>> THEN FALSE
    ELSE TRUE

\* validate_task: whether the task is accepted
validate_task(task) ==
    IF task.task_name = "" \/ task.app_name = "" \/ task.bundle_id = ""
       \/ task.asset_server_path = ""
    THEN FALSE
    ELSE IF task.ipa_url = "" /\ task.repo_url = "" THEN FALSE
    ELSE IF task.ipa_url # "" /\ task.repo_url # "" THEN FALSE
    ELSE IF task.ipa_url # "" /\ ~StartsWithHttp(task.ipa_url) THEN FALSE
    ELSE IF task.repo_url # "" /\ parse_repo_url(task.repo_url) = <<>> THEN FALSE
    ELSE TRUE

\* load_release_cache(...)["tasks"]: empty when the file is missing or corrupt
load_release_cache(file) == IF file.state = "ok" THEN file.tasks ELSE <<>>

-----------------------------------------------------------------------------
(* run_signing.py: main *)

\* The credentials and tools main needs: all there, or one of them missing
Setups ==
    LET ready == [NoEnv EXCEPT !.GITHUB_TOKEN = "ghs_token", !.REQUIRED_ENVS = "set",
                               !.CODESIGN_IDENTITY = "Apple Distribution: Example",
                               !.BUNDLE = "/usr/bin/bundle"]
    IN  { ready,
          [ready EXCEPT !.GITHUB_TOKEN = Unset],
          [ready EXCEPT !.REQUIRED_ENVS = Unset],
          [ready EXCEPT !.CODESIGN_IDENTITY = Unset],
          [ready EXCEPT !.BUNDLE = Unset] }

\* REBUILD_TASKS: not set, not JSON, or a JSON list of task names
RebuildTasksValues(names) ==
    { [state |-> "unset", names |-> {}], [state |-> "invalid", names |-> {}] }
    \cup { [state |-> "ok", names |-> S] : S \in SUBSET names }

Init ==
    /\ FnIdle
    /\ cached_file = NoFile
    /\ current_file = NoFile
    /\ CCIdle
    /\ \E ts \in Configs(TRUE) :
         /\ config \in { [exists |-> TRUE, tasks |-> ts] }
                       \cup (IF ts = <<>> THEN { [exists |-> FALSE, tasks |-> <<>>] } ELSE {})
         /\ cache_file \in CacheFiles(NamesOf(ts))
         /\ \E setup \in Setups, all \in {Unset, "TRUE"},
               list \in RebuildTasksValues(NamesOf(ts)) :
              env = [setup EXCEPT !.REBUILD_ALL = all, !.REBUILD_TASKS = list]
    /\ rs_pc = "start"
    /\ rs_rebuild_all = FALSE
    /\ rs_has_rebuild_tasks = FALSE
    /\ rs_rebuild_tasks_set = {}
    /\ rs_github_client = FALSE
    /\ rs_release_cache = <<>>
    /\ rs_i = 0
    /\ rs_should_rebuild = FALSE
    /\ rs_ipa_url = ""
    /\ rs_version_info = <<>>
    /\ rs_any_fail = FALSE
    /\ rs_exit = -1
    /\ rs_loaded = <<>>
    /\ rs_status = -1
    /\ rs_fetched = <<>>
    /\ rs_step = ""
    /\ rs_failed = {}
    /\ rs_rate_limited = FALSE
    /\ rs_seen = <<>>
    /\ server = <<>>

\* The exit code main returns before the task loop, -1 when it enters the loop
StartExit ==
    IF ~config.exists THEN 2
    ELSE IF config.tasks = <<>> THEN 0
    ELSE IF env.REBUILD_TASKS.state = "invalid" THEN 2
    ELSE IF \E k \in DOMAIN config.tasks : ~validate_task(config.tasks[k]) THEN 2
    ELSE IF env.REQUIRED_ENVS = Unset THEN 3
    ELSE IF env.BUNDLE = Unset THEN 1   \* find_bundle_exec raises: uncaught
    ELSE IF env.CODESIGN_IDENTITY = Unset THEN 4
    ELSE IF (\E k \in DOMAIN config.tasks : config.tasks[k].repo_url # "")
            /\ env.GITHUB_TOKEN = Unset THEN 6
    ELSE -1

\* main up to the task loop
RSStart ==
    /\ rs_pc = "start"
    /\ UNCHANGED <<fn_vars, world_vars, cc_vars>>
    /\ UNCHANGED <<rs_should_rebuild, rs_ipa_url, rs_version_info, rs_any_fail,
                   rs_status, rs_fetched, rs_step, rs_failed, rs_rate_limited, rs_seen,
                   server>>
    /\ IF StartExit # -1
       THEN /\ rs_pc' = "done"
            /\ rs_exit' = StartExit
            /\ UNCHANGED <<rs_rebuild_all, rs_has_rebuild_tasks, rs_rebuild_tasks_set,
                           rs_github_client, rs_release_cache, rs_i, rs_loaded>>
       ELSE /\ rs_rebuild_all' = FlagSet(env.REBUILD_ALL)
            /\ rs_has_rebuild_tasks' = (env.REBUILD_TASKS.state # "unset")
            /\ rs_rebuild_tasks_set' = env.REBUILD_TASKS.names
            /\ rs_github_client' =
                 (\E k \in DOMAIN config.tasks : config.tasks[k].repo_url # "")
            /\ rs_release_cache' = load_release_cache(cache_file)
            /\ rs_loaded' = load_release_cache(cache_file)
            /\ rs_i' = 1
            /\ rs_pc' = "decide"
            /\ UNCHANGED rs_exit

\* The release and the asset the iteration's request resolved to: << >> when it
\* found no release or no matching asset
Fetched(task, resp) ==
    LET got == fetch_latest_release(task.use_prerelease, resp)
    IN  IF got.raised \/ got.release = <<>> THEN <<>>
        ELSE LET found == find_matching_asset(got.release[1], task.release_glob)
             IN  IF found = <<>> THEN <<>>
                 ELSE <<[tag_name |-> got.release[1].tag_name,
                         published_at |-> got.release[1].published_at,
                         asset |-> found[1]]>>

\* What the iteration's request showed of the task: "no_asset" when a release
\* was found and none of its assets matches release_glob, "same" when the
\* release found carries the (version, published_at) the cache records for
\* the task, "" otherwise
Seen(task, cache_tasks, resp) ==
    LET got == fetch_latest_release(task.use_prerelease, resp)
    IN  IF got.raised \/ got.release = <<>> THEN ""
        ELSE IF find_matching_asset(got.release[1], task.release_glob) = <<>>
        THEN "no_asset"
        ELSE IF /\ CachedField(cache_tasks, task.task_name, "version") = got.release[1].tag_name
                /\ CachedField(cache_tasks, task.task_name, "published_at")
                     = got.release[1].published_at
        THEN "same"
        ELSE ""

\* The head of a loop iteration: the rebuild decision of the task, up to the
\* "no download URL" check
RSDecide ==
    /\ rs_pc = "decide"
    /\ rs_i <= Len(config.tasks)
    /\ UNCHANGED <<fn_vars, world_vars, cc_vars>>
    /\ UNCHANGED <<rs_rebuild_all, rs_has_rebuild_tasks, rs_rebuild_tasks_set,
                   rs_github_client, rs_release_cache, rs_exit, rs_loaded, server>>
    /\ LET task == config.tasks[rs_i]
           task_name == task.task_name
           listed_out == ~rs_rebuild_all /\ rs_has_rebuild_tasks
                         /\ task_name \notin rs_rebuild_tasks_set
           force == rs_rebuild_all \/ rs_has_rebuild_tasks
       IN  \E resp \in (IF ~listed_out /\ SignerRequests(task, rs_github_client)
                        THEN Responses(task) ELSE {NoResponse}) :
             LET d == should_rebuild_task(task, task_name, rs_release_cache,
                                          rs_github_client, force, resp)
                 should_rebuild == IF force THEN TRUE ELSE d.should_rebuild
             IN  /\ rs_status' = resp.status
                 /\ rs_rate_limited' = (rs_rate_limited \/ resp.status = 403)
                 /\ rs_fetched' = IF resp = NoResponse THEN <<>> ELSE Fetched(task, resp)
                 /\ rs_seen' = IF resp = NoResponse \/ Seen(task, rs_release_cache, resp) = ""
                               THEN rs_seen
                               ELSE (task_name :> Seen(task, rs_release_cache, resp)) @@ rs_seen
                 /\ IF listed_out
                    THEN \* not in REBUILD_TASKS: continue
                         /\ rs_should_rebuild' = FALSE
                         /\ rs_ipa_url' = ""
                         /\ rs_version_info' = <<>>
                         /\ rs_step' = "skipped"
                         /\ rs_i' = rs_i + 1
                         /\ UNCHANGED <<rs_pc, rs_any_fail, rs_failed>>
                    ELSE /\ rs_should_rebuild' = should_rebuild
                         /\ rs_ipa_url' = d.download_url
                         /\ rs_version_info' = d.version_info
                         /\ IF ~should_rebuild
                            THEN \* already up to date: continue
                                 /\ rs_step' = "skipped"
                                 /\ rs_i' = rs_i + 1
                                 /\ UNCHANGED <<rs_pc, rs_any_fail, rs_failed>>
                            ELSE IF d.download_url = ""
                            THEN \* no download URL: any_fail, continue
                                 /\ rs_step' = "no_url"
                                 /\ rs_any_fail' = TRUE
                                 /\ rs_failed' = rs_failed \cup {task_name}
                                 /\ rs_i' = rs_i + 1
                                 /\ UNCHANGED rs_pc
                            ELSE /\ rs_step' = "building"
                                 /\ rs_pc' = "pipeline"
                                 /\ UNCHANGED <<rs_i, rs_any_fail, rs_failed>>

\* How the rest of an iteration ends: the first step that fails, or "ok"
PipelineOutcomes ==
    {"no_profile", "download_failed", "download_empty", "resign_failed",
     "finalize_failed", "signed_missing", "mkdir_failed", "scp_failed", "ok"}

\* release_cache["tasks"] that is updated before the upload is known to succeed
cache_after_pipeline_eager(outcome, cache_tasks, task_name, version_info) ==
    IF version_info # <<>> /\ outcome \in {"ok", "mkdir_failed", "scp_failed"}
    THEN (task_name :> version_info[1]) @@ cache_tasks
    ELSE cache_tasks

\* release_cache["tasks"] that gets an entry after every upload, also when
\* there is no version_info
cache_after_pipeline_always(outcome, cache_tasks, task_name, version_info) ==
    IF outcome = "ok"
    THEN (task_name :> (IF version_info # <<>> THEN version_info[1]
                        ELSE [version |-> "", published_at |-> "",
                              download_url |-> "", asset_id |-> 0])) @@ cache_tasks
    ELSE cache_tasks

\* release_cache["tasks"] after the iteration: written only after the upload
cache_after_pipeline(outcome, cache_tasks, task_name, version_info) ==
    IF outcome = "ok" /\ version_info # <<>>
    THEN (task_name :> version_info[1]) @@ cache_tasks
    ELSE cache_tasks

\* The rest of the iteration when the cache file is saved after every task
RSPipeline_save_each ==
    /\ rs_pc = "pipeline"
    /\ UNCHANGED <<fn_vars, config, env, cc_vars>>
    /\ UNCHANGED <<rs_rebuild_all, rs_has_rebuild_tasks, rs_rebuild_tasks_set,
                   rs_github_client, rs_should_rebuild, rs_ipa_url, rs_version_info,
                   rs_exit, rs_loaded, rs_status, rs_fetched, rs_rate_limited, rs_seen>>
    /\ LET task_name == config.tasks[rs_i].task_name
       IN  \E outcome \in PipelineOutcomes :
             /\ rs_step' = outcome
             /\ rs_release_cache' =
                  cache_after_pipeline(outcome, rs_release_cache, task_name, rs_version_info)
             /\ cache_file' =
                  [state |-> "ok",
                   tasks |-> cache_after_pipeline(outcome, rs_release_cache, task_name,
                                                  rs_version_info)]
             /\ IF outcome = "ok"
                THEN /\ server' = (task_name :> rs_ipa_url) @@ server
                     /\ UNCHANGED <<rs_any_fail, rs_failed>>
                ELSE /\ rs_any_fail' = TRUE
                     /\ rs_failed' = rs_failed \cup {task_name}
                     /\ UNCHANGED server
             /\ rs_i' = rs_i + 1
             /\ rs_pc' = "decide"

\* The rest of the iteration: profile, download, re-sign, finalise, remote
\* mkdir, scp upload, cache update
RSPipeline ==
    /\ rs_pc = "pipeline"
    /\ UNCHANGED <<fn_vars, world_vars, cc_vars>>
    /\ UNCHANGED <<rs_rebuild_all, rs_has_rebuild_tasks, rs_rebuild_tasks_set,
                   rs_github_client, rs_should_rebuild, rs_ipa_url, rs_version_info,
                   rs_exit, rs_loaded, rs_status, rs_fetched, rs_rate_limited, rs_seen>>
    /\ LET task_name == config.tasks[rs_i].task_name
       IN  \E outcome \in PipelineOutcomes :
             /\ rs_step' = outcome
             /\ rs_release_cache' =
                  cache_after_pipeline(outcome, rs_release_cache, task_name, rs_version_info)
             /\ IF outcome = "ok"
                THEN /\ server' = (task_name :> rs_ipa_url) @@ server
                     /\ UNCHANGED <<rs_any_fail, rs_failed>>
                ELSE /\ rs_any_fail' = TRUE
                     /\ rs_failed' = rs_failed \cup {task_name}
                     /\ UNCHANGED server
             /\ rs_i' = rs_i + 1
             /\ rs_pc' = "decide"

\* The end of main when the first failed task ends the loop
RSFinish_stop_on_failure ==
    /\ rs_pc = "decide"
    /\ rs_i > Len(config.tasks) \/ rs_any_fail
    /\ UNCHANGED <<fn_vars, config, env, cc_vars>>
    /\ UNCHANGED <<rs_rebuild_all, rs_has_rebuild_tasks, rs_rebuild_tasks_set,
                   rs_github_client, rs_release_cache, rs_i, rs_any_fail, rs_loaded,
                   rs_failed, rs_rate_limited, rs_seen, server>>
    /\ rs_should_rebuild' = FALSE
    /\ rs_ipa_url' = ""
    /\ rs_version_info' = <<>>
    /\ rs_status' = -1
    /\ rs_fetched' = <<>>
    /\ rs_step' = ""
    /\ IF rs_github_client
       THEN \E written \in BOOLEAN :
              cache_file' = IF written THEN [state |-> "ok", tasks |-> rs_release_cache]
                            ELSE cache_file
       ELSE UNCHANGED cache_file
    /\ rs_exit' = IF rs_any_fail THEN 5 ELSE 0
    /\ rs_pc' = "done"

\* The end of main where a cache file that cannot be written fails the run
RSFinish_write_fatal ==
    /\ rs_pc = "decide"
    /\ rs_i > Len(config.tasks)
    /\ UNCHANGED <<fn_vars, config, env, cc_vars>>
    /\ UNCHANGED <<rs_rebuild_all, rs_has_rebuild_tasks, rs_rebuild_tasks_set,
                   rs_github_client, rs_release_cache, rs_i, rs_any_fail, rs_loaded,
                   rs_failed, rs_rate_limited, rs_seen, server>>
    /\ rs_should_rebuild' = FALSE
    /\ rs_ipa_url' = ""
    /\ rs_version_info' = <<>>
    /\ rs_status' = -1
    /\ rs_fetched' = <<>>
    /\ rs_step' = ""
    /\ IF rs_github_client
       THEN \E written \in BOOLEAN :
              /\ cache_file' = IF written THEN [state |-> "ok", tasks |-> rs_release_cache]
                               ELSE cache_file
              /\ rs_exit' = IF rs_any_fail \/ ~written THEN 5 ELSE 0
       ELSE /\ UNCHANGED cache_file
            /\ rs_exit' = IF rs_any_fail THEN 5 ELSE 0
    /\ rs_pc' = "done"

\* After the loop: save the cache (a failure to write only warns), return 5
\* or 0.  The locals of the last iteration end with main.
RSFinish ==
    /\ rs_pc = "decide"
    /\ rs_i > Len(config.tasks)
    /\ UNCHANGED <<fn_vars, config, env, cc_vars>>
    /\ UNCHANGED <<rs_rebuild_all, rs_has_rebuild_tasks, rs_rebuild_tasks_set,
                   rs_github_client, rs_release_cache, rs_i, rs_any_fail, rs_loaded,
                   rs_failed, rs_rate_limited, rs_seen, server>>
    /\ rs_should_rebuild' = FALSE
    /\ rs_ipa_url' = ""
    /\ rs_version_info' = <<>>
    /\ rs_status' = -1
    /\ rs_fetched' = <<>>
    /\ rs_step' = ""
    /\ IF rs_github_client
       THEN \E written \in BOOLEAN :
              cache_file' = IF written THEN [state |-> "ok", tasks |-> rs_release_cache]
                            ELSE cache_file
       ELSE UNCHANGED cache_file
    /\ rs_exit' = IF rs_any_fail THEN 5 ELSE 0
    /\ rs_pc' = "done"

Next == RSStart \/ RSDecide \/ RSPipeline \/ RSFinish

Spec == Init /\ [][Next]_vars

-----------------------------------------------------------------------------
(* Properties of run_signing.main *)

\* The cache has the same entry for the task in both, or none in both
SameEntry(c1, c2, task_name) ==
    /\ task_name \in DOMAIN c1 <=> task_name \in DOMAIN c2
    /\ task_name \in DOMAIN c1 => c1[task_name] = c2[task_name]

\* C1: for every task T, if any step of T's pipeline fails in a run (no
\* download URL, missing profile, download, re-sign, finalisation, remote
\* mkdir, scp upload), release_cache["tasks"][T] is what it was before the
\* run, absent if it was absent.
C1_FailedTaskCacheUnchanged ==
    \A T \in rs_failed : SameEntry(rs_release_cache, rs_loaded, T)

\* A was delivered and cached; B had a new version and its upload failed
C1_Witness ==
    /\ rs_pc = "decide" /\ rs_i = 3
    /\ rs_step = "scp_failed"
    /\ "B" \in rs_failed
    /\ "B" \in DOMAIN rs_loaded
    /\ rs_version_info # <<>>
    /\ rs_version_info[1].version # rs_loaded["B"].version
    /\ rs_release_cache["B"] = rs_loaded["B"]
    /\ "A" \in DOMAIN server
    /\ "A" \in DOMAIN rs_release_cache /\ "A" \notin DOMAIN rs_loaded

\* C2: whenever main writes a release-cache entry for a task, the entry's
\* version, published_at, download_url and asset_id are those of the release
\* and asset whose download_url was downloaded, signed and uploaded for that
\* task in the same iteration; the cache never holds a version for a task
\* that was not delivered.
C2_CacheRecordsDelivered ==
    /\ [](\A T \in DOMAIN rs_release_cache :
            ~SameEntry(rs_release_cache, rs_loaded, T) =>
                (T \in DOMAIN server /\ server[T] = rs_release_cache[T].download_url))
    /\ [][(rs_pc # "start" /\ rs_release_cache' # rs_release_cache) =>
            /\ rs_pc = "pipeline"
            /\ rs_step' = "ok"
            /\ rs_fetched # <<>>
            /\ rs_fetched[1].asset.browser_download_url = rs_ipa_url
            /\ server'[config.tasks[rs_i].task_name] = rs_ipa_url
            /\ rs_release_cache' =
                 (config.tasks[rs_i].task_name :>
                    [version |-> rs_fetched[1].tag_name,
                     published_at |-> rs_fetched[1].published_at,
                     download_url |-> rs_fetched[1].asset.browser_download_url,
                     asset_id |-> rs_fetched[1].asset.id]) @@ rs_release_cache
         ]_vars

\* A's entry (v1) was replaced by the v2 release that was just uploaded
C2_Witness ==
    /\ rs_pc = "decide" /\ rs_i = 2
    /\ rs_step = "ok"
    /\ "A" \in DOMAIN rs_loaded
    /\ rs_loaded["A"].version = "v1"
    /\ rs_release_cache["A"].version = "v2"
    /\ rs_version_info = <<rs_release_cache["A"]>>
    /\ server["A"] = rs_ipa_url

\* C3: an HTTP 403 answer to a GitHub API request is fatal for the whole run:
\* once a task's release request is answered 403, the run ends with a failure
\* result and no later task is checked (check_changes and run_signing).
C3_RateLimitIsFatal ==
    /\ rs_rate_limited =>
         IF rs_pc = "done" THEN rs_exit # 0 ELSE rs_status = 403
    /\ \A k \in DOMAIN cc_log :
         cc_log[k].status = 403 => (cc_pc = "done" /\ cc_exit \notin {-1, 0})

\* C4: for a ReleaseTracked task, when the release request fails with an HTTP
\* error other than 403/404 or with a network error, the rebuild decision is
\* should_rebuild=true (check_github_release_version and should_rebuild_task).
C4_ApiErrorForcesRebuild ==
    /\ (rs_pc \in {"decide", "pipeline"} /\ rs_status \in {500, NetworkError}) =>
         rs_should_rebuild
    /\ \A k \in DOMAIN cc_log :
         cc_log[k].status \in {500, NetworkError} => cc_log[k].has_changed

-----------------------------------------------------------------------------
(* The rebuild decision of one task, by both scripts *)

\* An older prerelease that follows the newest release in a release list
OlderPrerelease == [tag_name |-> "v0", published_at |-> "t0", prerelease |-> TRUE,
                    assets |-> <<AssetIpa>>]

\* The answers to the release request of a task, with release lists that hold
\* a second prerelease
DecideResponses(task) ==
    Responses(task)
    \cup (IF task.use_prerelease
          THEN [status : {200},
                body : {<<r, OlderPrerelease>> : r \in Releases}
                       \cup {<<OlderStable, r, OlderPrerelease>> : r \in Releases}]
          ELSE {})

\* The "tasks" table of the release cache: empty, an entry of another task
\* only, or an entry of task A
DecideCaches ==
    { <<>>, ("B" :> StoredEntry) }
    \cup { ("A" :> CacheEntry(v, t, AssetIpa)) : v \in Tags, t \in Times }

InitDecide ==
    /\ data = <<>>
    /\ permuted = <<>>
    /\ sum_data = <<>>
    /\ sum_permuted = <<>>
    /\ cached_file = NoFile
    /\ current_file = NoFile
    /\ cmp_result = <<>>
    /\ fn_pc = "idle"
    /\ WorldIdle
    /\ CCIdle
    /\ RSIdle
    /\ UnitIdle
    /\ dec_task \in SignTaskKinds("A")
    /\ dec_cache \in DecideCaches
    /\ dec_resp \in (IF CheckerRequests(dec_task) THEN DecideResponses(dec_task)
                     ELSE {NoResponse})
    /\ dec_client \in BOOLEAN
    /\ dec_force \in BOOLEAN
    /\ dec_check = <<>>
    /\ dec_signer = <<>>
    /\ dec_selected = <<>>

\* check_changes calls check_github_release_version(task, task_name, cached_versions, token)
DecCheck ==
    /\ dec_check = <<>>
    /\ dec_check' = <<check_github_release_version(dec_task, dec_task.task_name,
                                                   dec_cache, dec_resp)>>
    /\ UNCHANGED <<data, permuted, sum_data, sum_permuted, cached_file, current_file,
                   cmp_result, fn_pc, unit_vars, dec_task, dec_cache, dec_resp, dec_client,
                   dec_force, dec_signer, dec_selected, world_vars, cc_vars, rs_vars>>

\* run_signing calls should_rebuild_task(task, task_name, release_cache, client, force)
DecSigner ==
    /\ dec_signer = <<>>
    /\ dec_signer' = <<should_rebuild_task(dec_task, dec_task.task_name, dec_cache,
                                           dec_client, dec_force, dec_resp)>>
    /\ UNCHANGED <<data, permuted, sum_data, sum_permuted, cached_file, current_file,
                   cmp_result, fn_pc, unit_vars, dec_task, dec_cache, dec_resp, dec_client,
                   dec_force, dec_check, dec_selected, world_vars, cc_vars, rs_vars>>

\* The release each script reads out of a 200 answer
DecSelect ==
    /\ dec_selected = <<>>
    /\ dec_resp.status = 200
    /\ dec_selected' =
         <<[checker |-> CheckerRelease(dec_task.use_prerelease, dec_resp.body),
            fetch |-> fetch_latest_release(dec_task.use_prerelease, dec_resp).release]>>
    /\ UNCHANGED <<data, permuted, sum_data, sum_permuted, cached_file, current_file,
                   cmp_result, fn_pc, unit_vars, dec_task, dec_cache, dec_resp, dec_client,
                   dec_force, dec_check, dec_signer, world_vars, cc_vars, rs_vars>>

NextDecide == DecCheck \/ DecSigner \/ DecSelect

SpecDecide == InitDecide /\ [][NextDecide]_vars

-----------------------------------------------------------------------------
(* Properties of the rebuild decision *)

\* A task with repo_url only, whose repo_url is a GitHub URL
ReleaseTracked(task) ==
    task.task_name # "" /\ task.ipa_url = "" /\ CheckerRequests(task)

\* The release request of the decision was answered with a release that has
\* an asset matching the task's release_glob
Resolved == dec_resp.status = 200 /\ Fetched(dec_task, dec_resp) # <<>>

\* The release request was answered 200 with a release without matching asset
NoMatchingAsset ==
    /\ dec_resp.status = 200
    /\ fetch_latest_release(dec_task.use_prerelease, dec_resp).release # <<>>
    /\ Fetched(dec_task, dec_resp) = <<>>

\* C11: a ReleaseTracked task with no prior cache entry is always selected
\* for rebuild: whatever the release request is answered (a release, no
\* release, an error), check_github_release_version and should_rebuild_task
\* report should_rebuild=true for a task whose name is absent from the cache,
\* with reason first_run when a release was found.
C11_FirstRunAlwaysRebuilds ==
    (ReleaseTracked(dec_task) /\ dec_task.task_name \notin DOMAIN dec_cache
        /\ ~NoMatchingAsset) =>
        /\ dec_check # <<>> =>
             /\ dec_check[1].has_changed
             /\ Resolved => dec_check[1].reason = "first_run"
        /\ (dec_signer # <<>> /\ dec_client) => dec_signer[1].should_rebuild

-----------------------------------------------------------------------------
(* Properties of run_signing.main: the fate of a task in a run *)

\* main checks every task individually: neither REBUILD_ALL nor REBUILD_TASKS
IndividualMode == rs_pc # "start" /\ ~rs_rebuild_all /\ ~rs_has_rebuild_tasks

\* The task whose rebuild decision the locals of main hold: the one whose
\* pipeline runs, or the one the loop has just left
DecidedTask ==
    IF rs_pc = "pipeline" THEN <<config.tasks[rs_i]>>
    ELSE IF rs_pc = "decide" /\ rs_i > 1 THEN <<config.tasks[rs_i - 1]>>
    ELSE <<>>

\* The request of the task showed what rs_seen says
SeenAs(task_name, what) == task_name \in DOMAIN rs_seen /\ rs_seen[task_name] = what

\* C12: when the cached (version, published_at) of a ReleaseTracked task
\* equals the live release's (tag_name, published_at) and no force flag is
\* set, should_rebuild_task reports should_rebuild=false with no version info
\* to cache, main skips the task (it is neither built nor failed), and its
\* cache entry is left untouched by the run.
C12_UpToDateSkipped ==
    IndividualMode =>
        /\ \A T \in DOMAIN rs_seen :
             rs_seen[T] = "same" =>
                /\ SameEntry(rs_release_cache, rs_loaded, T)
                /\ T \notin DOMAIN server
                /\ T \notin rs_failed
        /\ (DecidedTask # <<>> /\ SeenAs(DecidedTask[1].task_name, "same")) =>
                /\ rs_pc = "decide"
                /\ rs_step = "skipped"
                /\ ~rs_should_rebuild
                /\ rs_version_info = <<>>

\* A had v1/t1 in the cache, the latest release is v1/t1: skipped
C12_Witness ==
    /\ IndividualMode
    /\ rs_pc = "decide" /\ rs_i = 2
    /\ rs_status = 200 /\ rs_fetched # <<>>
    /\ rs_fetched[1].tag_name = rs_loaded["A"].version
    /\ rs_fetched[1].published_at = rs_loaded["A"].published_at
    /\ SeenAs("A", "same")
    /\ rs_step = "skipped"
    /\ rs_ipa_url # ""

\* The release the two scripts read out of the 200 answer of the decision
LiveRelease == fetch_latest_release(dec_task.use_prerelease, dec_resp).release[1]

\* The cache entry of the task of the decision
CachedEntry == dec_cache[dec_task.task_name]

\* C13: for a ReleaseTracked task with a cached entry: if the live tag_name
\* differs from the cached version the decision is rebuild with reason
\* version_changed, also when published_at differs too; if tag_name is equal
\* but published_at differs the decision is rebuild with reason republished;
\* if both are equal the decision is no rebuild, reason up_to_date.
C13_TagBeforeTimestamp ==
    (ReleaseTracked(dec_task) /\ dec_task.task_name \in DOMAIN dec_cache
        /\ dec_resp.status = 200 /\ dec_resp.body # <<>>) =>
        /\ dec_check # <<>> =>
             dec_check[1] =
                IF LiveRelease.tag_name # CachedEntry.version
                THEN [has_changed |-> TRUE, reason |-> "version_changed", exit |-> -1]
                ELSE IF LiveRelease.published_at # CachedEntry.published_at
                THEN [has_changed |-> TRUE, reason |-> "republished", exit |-> -1]
                ELSE [has_changed |-> FALSE, reason |-> "up_to_date", exit |-> -1]
        /\ (dec_signer # <<>> /\ dec_client /\ ~dec_force /\ Resolved) =>
             dec_signer[1].should_rebuild =
                (\/ LiveRelease.tag_name # CachedEntry.version
                 \/ LiveRelease.published_at # CachedEntry.published_at)

\* tag and timestamp both differ from the cache: version_changed
C13_Witness ==
    /\ ReleaseTracked(dec_task) /\ dec_task.task_name \in DOMAIN dec_cache
    /\ dec_resp.status = 200 /\ dec_resp.body # <<>>
    /\ LiveRelease.tag_name # CachedEntry.version
    /\ LiveRelease.published_at # CachedEntry.published_at
    /\ dec_check # <<>> /\ dec_check[1].reason = "version_changed"
    /\ dec_signer # <<>> /\ dec_signer[1].should_rebuild /\ ~dec_force

\* C14: when a ReleaseTracked task's resolved release has no asset matching
\* the glob, should_rebuild_task returns should_rebuild=false with no URL and
\* no version info, and main treats the task as a non-fatal skip in every mode
\* (REBUILD_ALL, REBUILD_TASKS list, individual check): the task is not
\* counted as a failure and does not change the run's exit code.
C14_NoAssetIsSkipped ==
    /\ \A T \in DOMAIN rs_seen :
         rs_seen[T] = "no_asset" => T \notin rs_failed
    /\ (DecidedTask # <<>> /\ SeenAs(DecidedTask[1].task_name, "no_asset")) =>
         /\ rs_step = "skipped"
         /\ rs_ipa_url = "" /\ rs_version_info = <<>>
    /\ (rs_pc = "done" /\ rs_failed \subseteq { T \in DOMAIN rs_seen : rs_seen[T] = "no_asset" })
         => rs_exit # 5

\* The release request of the decision found no release at all: an empty
\* release list, or 404 (fetch_latest_release returns None)
NoReleaseAtAll ==
    \/ dec_resp.status = 404
    \/ dec_resp.status = 200 /\ dec_task.use_prerelease /\ dec_resp.body = <<>>

\* C15: if no releases exist at all for a ReleaseTracked task (empty release
\* list, or no release returned), the decision is should_rebuild=true with
\* reason no_releases, in check_github_release_version and in
\* should_rebuild_task, for both use_prerelease settings.
C15_NoReleaseForcesRebuild ==
    (ReleaseTracked(dec_task) /\ NoReleaseAtAll) =>
        /\ dec_check # <<>> =>
             (dec_check[1].has_changed /\ dec_check[1].reason = "no_releases")
        /\ (dec_signer # <<>> /\ dec_client) => dec_signer[1].should_rebuild

\* C16: a repo_url that does not match the GitHub URL pattern yields decision
\* invalid_repo_url with should_rebuild=true: the task is treated as changed
\* and rebuilt, never skipped, by check_github_release_version and by
\* should_rebuild_task.
C16_InvalidRepoUrlForcesRebuild ==
    (dec_task.ipa_url = "" /\ dec_task.repo_url # ""
        /\ parse_repo_url(dec_task.repo_url) = <<>>) =>
        /\ dec_check # <<>> =>
             (dec_check[1].has_changed /\ dec_check[1].reason = "invalid_repo_url")
        /\ (dec_signer # <<>> /\ dec_client) => dec_signer[1].should_rebuild

-----------------------------------------------------------------------------
(* Properties of both mains *)

\* The configuration is in error: the file is missing or a task is invalid
ConfigError ==
    \/ ~config.exists
    \/ \E k \in DOMAIN config.tasks : ~validate_task(config.tasks[k])

\* C17: configuration errors are fatal before any network activity: if the
\* config file is missing or any task is invalid (missing required field,
\* both ipa_url and repo_url set, malformed repository URL, non-HTTP(S)
\* ipa_url), the run exits non-zero without having issued any GitHub API
\* request, download or upload; for check_changes.main and run_signing.main.
C17_ConfigErrorsFatalFirst ==
    ConfigError =>
        /\ \A k \in DOMAIN cc_log : cc_log[k].status = -1
        /\ cc_pc = "done" => cc_exit # 0
        /\ rs_status = -1 /\ rs_step = "" /\ server = <<>>
        /\ rs_pc = "done" => rs_exit # 0

\* C18: with force_rebuild=True, should_rebuild_task skips the cache
\* comparison but still resolves the release and the asset: for a
\* ReleaseTracked task whose release and matching asset are found it returns
\* (True, the asset's download URL, version info of that release and asset)
\* for every cache content, including an entry identical to the live release.
C18_ForceStillResolves ==
    (ReleaseTracked(dec_task) /\ dec_client /\ dec_force /\ Resolved
        /\ dec_signer # <<>>) =>
        LET asset == Fetched(dec_task, dec_resp)[1].asset
        IN  dec_signer[1] =
              [should_rebuild |-> TRUE,
               download_url |-> asset.browser_download_url,
               version_info |-> <<[version |-> LiveRelease.tag_name,
                                   published_at |-> LiveRelease.published_at,
                                   download_url |-> asset.browser_download_url,
                                   asset_id |-> asset.id]>>]

\* forced although the cache entry is the live release
C18_Witness ==
    /\ ReleaseTracked(dec_task) /\ dec_client /\ dec_force /\ Resolved
    /\ dec_task.task_name \in DOMAIN dec_cache
    /\ CachedEntry.version = LiveRelease.tag_name
    /\ CachedEntry.published_at = LiveRelease.published_at
    /\ dec_signer # <<>> /\ dec_signer[1].should_rebuild
    /\ dec_signer[1].version_info # <<>>

\* The names of the tasks of the configuration that have an ipa_url
DirectNames ==
    { config.tasks[k].task_name : k \in { j \in DOMAIN config.tasks : config.tasks[j].ipa_url # "" } }

\* C19: for a DirectURL task, should_rebuild_task returns (True, ipa_url,
\* None) for every cache content, client and force flag (main goes on to the
\* pipeline with that URL and no version info), and no run of main creates or
\* modifies a release-cache entry under a DirectURL task's name, in memory or
\* in the cache file.
C19_DirectUrlNeverCached ==
    /\ \A T \in DirectNames :
         rs_pc \notin {"idle", "start"} /\ rs_i >= 1 =>
            /\ SameEntry(rs_release_cache, rs_loaded, T)
            /\ SameEntry(load_release_cache(cache_file), rs_loaded, T)
    /\ (DecidedTask # <<>> /\ DecidedTask[1].ipa_url # "") =>
         \/ /\ rs_step # "skipped"
            /\ rs_should_rebuild
            /\ rs_ipa_url = DecidedTask[1].ipa_url
            /\ rs_version_info = <<>>
            /\ rs_status = -1
         \/ /\ rs_step = "skipped"
            /\ ~rs_rebuild_all /\ rs_has_rebuild_tasks
            /\ DecidedTask[1].task_name \notin rs_rebuild_tasks_set

\* the direct task A was uploaded; the entry the cache had under A is as it was
C19_Witness ==
    /\ rs_pc = "done" /\ rs_exit = 0
    /\ "A" \in DirectNames
    /\ "A" \in DOMAIN server /\ server["A"] = IpaUrlHttps
    /\ "A" \in DOMAIN rs_loaded
    /\ rs_release_cache["A"] = rs_loaded["A"]
    /\ rs_github_client
    /\ "B" \in DOMAIN rs_release_cache /\ "B" \notin DOMAIN rs_loaded
    /\ cache_file = [state |-> "ok", tasks |-> rs_release_cache]

\* The positions of the release list of the decision that are flagged prerelease
FlaggedPositions == { k \in DOMAIN dec_resp.body : dec_resp.body[k].prerelease }

\* C20: with use_prerelease=true the selected release is the first entry of
\* the upstream-ordered release list flagged prerelease; if no entry is
\* flagged, it is the first entry of the list; if the list is empty, no
\* release is selected.  With use_prerelease=false the single latest-stable
\* release is used.  check_github_release_version and fetch_latest_release
\* select the same release for the same list.
C20_FirstPrereleaseSelected ==
    dec_selected # <<>> =>
        /\ dec_selected[1].checker = dec_selected[1].fetch
        /\ dec_selected[1].fetch =
             IF ~dec_task.use_prerelease THEN <<dec_resp.body[1]>>
             ELSE IF dec_resp.body = <<>> THEN <<>>
             ELSE IF FlaggedPositions = {} THEN <<dec_resp.body[1]>>
             ELSE <<dec_resp.body[CHOOSE k \in FlaggedPositions :
                                     \A j \in FlaggedPositions : k <= j]>>

\* a stable release first, then two prereleases: the first prerelease is taken
C20_Witness ==
    /\ dec_task.use_prerelease
    /\ dec_resp.status = 200 /\ Len(dec_resp.body) = 3
    /\ FlaggedPositions = {2, 3}
    /\ dec_selected = <<[checker |-> <<dec_resp.body[2]>>, fetch |-> <<dec_resp.body[2]>>]>>

-----------------------------------------------------------------------------
(* find_matching_asset applied to one release *)

MaxAssets == 3         \* most assets of a release given to find_matching_asset

\* The glob patterns of the model; "*.zip" matches no asset name of the model
GlobPatterns == {"*.ipa", "*-debug.ipa", "*.apk", "*.zip"}

\* The parts of the state the specifications of one function leave alone
UnitFrame ==
    /\ data = <<>>
    /\ permuted = <<>>
    /\ sum_data = <<>>
    /\ sum_permuted = <<>>
    /\ cached_file = NoFile
    /\ current_file = NoFile
    /\ cmp_result = <<>>
    /\ DecIdle
    /\ WorldIdle
    /\ CCIdle
    /\ RSIdle

InitAsset ==
    /\ UnitFrame
    /\ fn_pc = "start"
    /\ \E assets \in SeqsUpTo({AssetIpa, AssetDebug, AssetApk}, MaxAssets) :
         fma_release = [tag_name |-> "v1", published_at |-> "t1", prerelease |-> FALSE,
                        assets |-> assets]
    /\ fma_glob_pattern \in GlobPatterns
    /\ fma_asset = <<>>
    /\ vt_task = <<>>
    /\ vt_is_valid = FALSE

\* client.find_matching_asset(release, glob_pattern)
FindMatchingAsset ==
    /\ fn_pc = "start"
    /\ fma_asset' = find_matching_asset(fma_release, fma_glob_pattern)
    /\ fn_pc' = "done"
    /\ UNCHANGED <<data, permuted, sum_data, sum_permuted, cached_file, current_file,
                   cmp_result, dec_vars, fma_release, fma_glob_pattern, vt_task,
                   vt_is_valid, world_vars, cc_vars, rs_vars>>

NextAsset == FindMatchingAsset

SpecAsset == InitAsset /\ [][NextAsset]_vars

\* The positions of the assets of the release whose name matches the pattern
MatchingPositions ==
    { k \in DOMAIN fma_release.assets :
        fnmatch(fma_release.assets[k].name, fma_glob_pattern) }

\* C21: find_matching_asset returns the first asset, in the order listed by
\* the API, whose name matches the glob pattern, and returns no asset when
\* none matches or the release has no assets; when several match, the result
\* is still the first match.
C21_FirstMatchingAsset ==
    fn_pc = "done" =>
        fma_asset =
            IF MatchingPositions = {} THEN <<>>
            ELSE <<fma_release.assets[CHOOSE k \in MatchingPositions :
                                         \A j \in MatchingPositions : k <= j]>>

\* app.apk, app-debug.ipa, app.ipa against "*.ipa": two match, the first is taken
C21_Witness ==
    /\ fn_pc = "done"
    /\ fma_release.assets = <<AssetApk, AssetDebug, AssetIpa>>
    /\ fma_glob_pattern = "*.ipa"
    /\ fma_asset = <<AssetDebug>>

-----------------------------------------------------------------------------
(* validate_task applied to one task *)

IpaUrlHttp == "http://cdn.example/app.ipa"

\* Tasks of tasks.toml with each base field set or not, and each source not
\* set, well-formed or malformed
ValidationTasks ==
    [task_name : {"", "A"}, app_name : {"", "App"}, bundle_id : {"", "com.example.app"},
     asset_server_path : {"", "/srv/ipa/"},
     ipa_url : {"", IpaUrlHttps, IpaUrlHttp, IpaUrlFtp},
     repo_url : {"", RepoUrlHttps, RepoUrlSsh, RepoUrlGitlab},
     use_prerelease : {FALSE}, release_glob : {"*.ipa"}]

InitValidate ==
    /\ UnitFrame
    /\ fn_pc = "start"
    /\ fma_release = <<>>
    /\ fma_glob_pattern = ""
    /\ fma_asset = <<>>
    /\ vt_task \in ValidationTasks
    /\ vt_is_valid = FALSE

\* is_valid, error = validate_task(task)
ValidateTask ==
    /\ fn_pc = "start"
    /\ vt_is_valid' = validate_task(vt_task)
    /\ fn_pc' = "done"
    /\ UNCHANGED <<data, permuted, sum_data, sum_permuted, cached_file, current_file,
                   cmp_result, dec_vars, fma_release, fma_glob_pattern, fma_asset,
                   vt_task, world_vars, cc_vars, rs_vars>>

NextValidate == ValidateTask

SpecValidate == InitValidate /\ [][NextValidate]_vars

\* C22: validate_task accepts a task iff all four base fields (task_name,
\* app_name, bundle_id, asset_server_path) are non-empty and exactly one of
\* ipa_url / repo_url is set (with ipa_url an http:// or https:// URL, or
\* repo_url a GitHub URL); it rejects a task with both sources and a task
\* with neither.
C22_ValidateTaskAccepts ==
    fn_pc = "done" =>
        (vt_is_valid <=>
            /\ vt_task.task_name # "" /\ vt_task.app_name # ""
            /\ vt_task.bundle_id # "" /\ vt_task.asset_server_path # ""
            /\ \/ vt_task.repo_url = "" /\ vt_task.ipa_url \in {IpaUrlHttps, IpaUrlHttp}
               \/ vt_task.ipa_url = "" /\ vt_task.repo_url \in {RepoUrlHttps, RepoUrlSsh})

\* every base field set, both sources set and well-formed: rejected
C22_Witness ==
    /\ fn_pc = "done"
    /\ vt_task.task_name # "" /\ vt_task.app_name # ""
    /\ vt_task.bundle_id # "" /\ vt_task.asset_server_path # ""
    /\ vt_task.ipa_url = IpaUrlHttps /\ vt_task.repo_url = RepoUrlSsh
    /\ ~vt_is_valid

\* C23: local cache I/O errors are never fatal: a missing, unreadable or
\* corrupt release-cache file is treated as an empty cache, and a failure to
\* write the cache file at the end of the run produces only a warning: the
\* exit code is what it is when the write succeeds (5 iff a task failed,
\* else 0).
C23_CacheIoNeverFatal ==
    /\ rs_pc \in {"decide", "pipeline"} =>
         rs_loaded = IF cache_file.state = "ok" THEN cache_file.tasks ELSE <<>>
    /\ (rs_pc = "done" /\ rs_i >= 1) =>
         rs_exit = IF rs_failed # {} THEN 5 ELSE 0

\* the cache file was corrupt, a new entry was to be saved, the write failed:
\* the run still returns 0
C23_Witness ==
    /\ rs_pc = "done" /\ rs_exit = 0
    /\ rs_github_client
    /\ rs_loaded = <<>>
    /\ "A" \in DOMAIN rs_release_cache
    /\ cache_file.state = "corrupt"

\* The run found a task with repo_url and no GITHUB_TOKEN
TokenMissing ==
    /\ config.exists
    /\ \E k \in DOMAIN config.tasks : config.tasks[k].repo_url # ""
    /\ env.GITHUB_TOKEN = Unset

InTaskLoop == rs_pc \in {"decide", "pipeline"}

\* C25: re-running is safe after an interrupted run: at every point of the
\* task loop of run_signing the persisted release-cache file equals its
\* pre-run content (the file is written only by the step that ends the run
\* after the loop): what load_release_cache and the planner of check_changes
\* would read from it is what this run read, so that, with upstream
\* unchanged, the next run decides every task as before the interrupted run.
C25_InterruptedRunKeepsCacheFile ==
    /\ [](InTaskLoop =>
            /\ load_release_cache(cache_file) = rs_loaded
            /\ cached_versions_of(cache_file) = rs_loaded)
    /\ [][cache_file' # cache_file =>
            (rs_pc = "decide" /\ rs_i > Len(config.tasks) /\ rs_pc' = "done")]_vars

\* A was uploaded and cached in memory; the run is still in the loop and the
\* file holds what it held before the run
C25_Witness ==
    /\ InTaskLoop /\ rs_i = 2 /\ Len(config.tasks) = 2
    /\ "A" \in DOMAIN server
    /\ "A" \in DOMAIN rs_release_cache
    /\ cache_file.state = "ok" /\ "A" \in DOMAIN cache_file.tasks
    /\ rs_release_cache["A"] # cache_file.tasks["A"]
    /\ cache_file.tasks = rs_loaded

\* C26: in run_signing.main a failure of one task never stops the run: every
\* task of the configuration is visited in configuration order whatever
\* happened to earlier tasks, the cache is saved after the loop also when
\* tasks failed, and the run returns 5 iff at least one visited task failed
\* (no download URL, missing profile, download, sign, finalise or upload
\* failure) and 0 otherwise.
C26_FailureNeverStopsRun ==
    /\ []((rs_pc = "done" /\ rs_i >= 1) =>
            /\ rs_i = Len(config.tasks) + 1
            /\ rs_exit \in {0, 5}
            /\ rs_exit = 5 <=> rs_failed # {})
    /\ [](InTaskLoop => rs_exit = -1)
    /\ [][rs_i' # rs_i => rs_i' = rs_i + 1]_vars
    /\ [][rs_failed' # rs_failed =>
            (rs_pc' = "decide" /\ rs_i' = rs_i + 1
             /\ rs_failed' = rs_failed \cup {config.tasks[rs_i].task_name})]_vars
    /\ [][(InTaskLoop /\ rs_pc' = "done" /\ rs_github_client) =>
            cache_file' \in {cache_file, [state |-> "ok", tasks |-> rs_release_cache]}]_vars

\* A failed, B was still visited, uploaded and its entry saved; the run returns 5
C26_Witness ==
    /\ rs_pc = "done" /\ rs_exit = 5
    /\ Len(config.tasks) = 2
    /\ rs_failed = {"A"}
    /\ "B" \in DOMAIN server
    /\ "B" \notin DOMAIN rs_loaded
    /\ cache_file.state = "ok" /\ "B" \in DOMAIN cache_file.tasks

\* The cache file save_release_cache writes from the in-memory cache
SavedFile(cache_tasks) == [state |-> "ok", tasks |-> cache_tasks]

\* Both checkers find the task up to date against the file and the answer
UpToDateInBoth(task, file, resp) ==
    /\ ~check_github_release_version(task, task.task_name,
                                     cached_versions_of(file), resp).has_changed
    /\ check_github_release_version(task, task.task_name,
                                    cached_versions_of(file), resp).reason = "up_to_date"
    /\ ~should_rebuild_task(task, task.task_name, load_release_cache(file),
                            TRUE, FALSE, resp).should_rebuild

\* C27: after a run that uploads ReleaseTracked task T (release with a non-empty
\* tag_name) and saves the cache, a check against the unchanged upstream
\* release reports T up to date in check_github_release_version and in
\* should_rebuild_task: the entry the upload writes is what the next comparison
\* reads, it stays in the in-memory cache until the end of the run, and the
\* file the run saves is that in-memory cache.
C27_SavedEntryIsUpToDate ==
    /\ [][(rs_pc = "pipeline" /\ rs_step' = "ok" /\ rs_version_info # <<>>) =>
            LET task == config.tasks[rs_i]
            IN  \A resp \in Responses(task) :
                  (Fetched(task, resp) = rs_fetched /\ rs_fetched[1].tag_name # "") =>
                     UpToDateInBoth(task, SavedFile(rs_release_cache'), resp)]_vars
    /\ [][\A k \in 1..(rs_i - 1) :
            LET n == config.tasks[k].task_name
            IN  (InTaskLoop /\ n \in DOMAIN server /\ n \in DOMAIN rs_release_cache) =>
                   (n \in DOMAIN rs_release_cache'
                    /\ rs_release_cache'[n] = rs_release_cache[n])]_vars
    /\ [][cache_file' # cache_file => cache_file' = SavedFile(rs_release_cache)]_vars

\* A was uploaded from release v2, the run saved the cache, and both checkers
\* find A up to date against the saved file and that release
C27_Witness ==
    /\ rs_pc = "done"
    /\ "A" \in DOMAIN server
    /\ ReleaseTracked(config.tasks[1])
    /\ ~config.tasks[1].use_prerelease
    /\ cache_file = SavedFile(rs_release_cache)
    /\ "A" \in DOMAIN cache_file.tasks
    /\ cache_file.tasks["A"].version = "v2"
    /\ UpToDateInBoth(config.tasks[1], cache_file,
                      [status |-> 200,
                       body |-> <<[tag_name |-> "v2", published_at |-> "t1",
                                   prerelease |-> FALSE,
                                   assets |-> <<AssetApk, AssetIpa>>]>>])

\* The task of position k is left out by the REBUILD_TASKS list
ListedOut(k) ==
    /\ ~rs_rebuild_all
    /\ rs_has_rebuild_tasks
    /\ config.tasks[k].task_name \notin rs_rebuild_tasks_set

\* C28: in run_signing.main with REBUILD_ALL false and REBUILD_TASKS provided,
\* a task not named in REBUILD_TASKS is skipped with no API request, download,
\* signing or upload and with its cache entry unchanged, and every task named
\* in REBUILD_TASKS is processed with the cache comparison bypassed; with
\* REBUILD_ALL true, REBUILD_TASKS is ignored and every task is processed.
C28_RebuildListSelects ==
    /\ (rs_pc = "decide" /\ rs_i > 1 /\ ListedOut(rs_i - 1)) =>
          /\ rs_status = -1
          /\ rs_step = "skipped"
          /\ ~rs_should_rebuild /\ rs_ipa_url = "" /\ rs_version_info = <<>>
    /\ rs_pc \in {"decide", "pipeline", "done"} =>
          \A k \in 1..(rs_i - 1) :
             ListedOut(k) =>
                /\ config.tasks[k].task_name \notin DOMAIN server
                /\ config.tasks[k].task_name \notin rs_failed
                /\ SameEntry(rs_loaded, rs_release_cache, config.tasks[k].task_name)
    /\ rs_pc = "pipeline" => ~ListedOut(rs_i)
    /\ (InTaskLoop /\ (rs_rebuild_all \/ rs_has_rebuild_tasks) /\ DecidedTask # <<>>
        /\ ~(rs_pc = "decide" /\ ListedOut(rs_i - 1))) =>
          /\ rs_should_rebuild
          /\ rs_step # "skipped"
    /\ (rs_pc # "start" /\ FlagSet(env.REBUILD_ALL) /\ config.exists
        /\ config.tasks # <<>>
        /\ \A k \in DOMAIN config.tasks : validate_task(config.tasks[k])) =>
          /\ rs_exit # 2
          /\ rs_i >= 1 => rs_rebuild_all

\* C29: the two rebuild checkers agree on the normal path: for a ReleaseTracked
\* task with a parseable repo_url, the same cache and the same live release
\* that has an asset matching the glob, has_changed of
\* check_github_release_version equals should_rebuild of should_rebuild_task
\* with force_rebuild=False.
C29_CheckersAgree ==
    (/\ dec_check # <<>>
     /\ dec_signer # <<>>
     /\ ReleaseTracked(dec_task)
     /\ Resolved
     /\ dec_client
     /\ ~dec_force) =>
        /\ dec_check[1].has_changed = dec_signer[1].should_rebuild
        /\ dec_check[1].has_changed <=> dec_signer[1].version_info # <<>>
        /\ dec_check[1].exit = -1

\* A republished release: the cached tag is the live tag, the time differs, and
\* both checkers ask for a rebuild
C29_Witness ==
    /\ dec_check # <<>>
    /\ dec_signer # <<>>
    /\ ReleaseTracked(dec_task)
    /\ Resolved
    /\ dec_client
    /\ ~dec_force
    /\ dec_task.use_prerelease
    /\ dec_task.task_name \in DOMAIN dec_cache
    /\ CachedEntry.version = LiveRelease.tag_name
    /\ dec_check[1].reason = "republished"
    /\ dec_signer[1].should_rebuild

-----------------------------------------------------------------------------
(* Missing checksum of the cached snapshot *)

\* C30: compare_device_lists calculates a missing checksum only for the current
\* snapshot: when the cached snapshot exists and its checksum field is missing
\* or empty, the result is changed=True for every current snapshot, also when
\* the cached and the current device lists are identical.
C30_CachedWithoutChecksumChanged ==
    (fn_pc = "done" /\ ~Absent(cached_file) /\ cached_file.json.checksum = <<>>) =>
        /\ cmp_result[1].changed
        /\ cmp_result[1].cached = <<cached_file.json>>

\* Two snapshots of the same two devices, neither with a checksum field
C30_Witness ==
    /\ fn_pc = "done"
    /\ ~Absent(cached_file) /\ ~Absent(current_file)
    /\ cached_file.json.checksum = <<>>
    /\ current_file.json.checksum = <<>>
    /\ Len(current_file.json.devices) = 2
    /\ cached_file.json.devices = current_file.json.devices
    /\ cmp_result[1].changed

=============================================================================
